---------------------------- MODULE Spec2Model ----------------------------
(***************************************************************************)
(* Contract Intelligence Agent: the two-stage extraction pipeline          *)
(* (OCR stage -> AI structuring stage) of the repository, as a state       *)
(* machine.                                                                *)
(*                                                                         *)
(*   src/contract_intelligence_agent.py   the local /analyze handler       *)
(*                                         ("agent")                       *)
(*   src/api/index.py                     the Vercel /api/analyze handler  *)
(*                                         ("index")                       *)
(*   src/colab_client.py                  ColabOCRClient.process_file      *)
(*   src/src/parser/contract_intelligence.py  ContractIntelligence         *)
(*   src/api/contract_intelligence.py     ContractIntelligence (Vercel)    *)
(*   src/api/colab_client.py              ColabOCRClient.process_contract  *)
(*   src/api/ocr.py                       the /ocr proxy                   *)
(*                                                                         *)
(* Python dicts are records (a key is present iff it is in DOMAIN), JSON   *)
(* values whose type the code depends on are tagged [type, d], strings     *)
(* the code inspects are sequences of tokens.                              *)
(***************************************************************************)
EXTENDS Integers, Sequences, FiniteSets, TLC

(***************************************************************************)
(* Bounds of the model.                                                    *)
(***************************************************************************)
NumReqs == 2
MaxLLMCalls == 2

Reqs == 1..NumReqs

(***************************************************************************)
(* Python values.                                                          *)
(***************************************************************************)
EmptyDict == [k \in {} |-> 0]
\* Python's None where a string is expected: a reserved one-token string.
None == <<"<None>">>
\* The unset value of a dict-valued local.
Unset == [unset |-> TRUE]
Dict(d) == [type |-> "dict", d |-> d]
IsDict(v) == v.type = "dict"
HasKey(v, k) == IsDict(v) /\ k \in DOMAIN v.d
\* datetime.now().isoformat()
Now == "2025-01-01T00:00:00"

(***************************************************************************)
(* Uploads.                                                                *)
(***************************************************************************)
Filenames == {"a.pdf", "b.txt"}
\* The bytes request r uploads: the lengths differ, so that a file written
\* twice shows what the second write left of the first.
Content(r) == [i \in 1..(NumReqs + 1 - r) |-> r]

(***************************************************************************)
(* OCR text: sequences of tokens.                                          *)
(***************************************************************************)
NumTokens == {"5,000", "4", "4000.50"}
DigitTokens == {"4"}
DateTokens == {"2024-01-01", "2025-01-01"}
Texts == { <<>>,
           <<"AED", "5,000", "4", "Cheques", "2024-01-01", "2025-01-01">>,
           <<"AED", "4000.50", "AED", "5,000">> }

(***************************************************************************)
(* The LLM's replies: message.content as a sequence of tokens.  A token    *)
(* in JsonDocs stands for the text of one JSON document, "prose" for text  *)
(* that is no JSON, "\n" for whitespace, "<fence>" for three backticks.    *)
(* "STR_OPEN" ... "STR_CLOSE" is the text of a JSON object with one        *)
(* string value, {"note": "..."}, the tokens between them its characters.  *)
(***************************************************************************)
JsonDocs == {"OBJ_FULL", "OBJ_NOCD", "OBJ_CDNULL", "OBJ_CDERR", "LIST",
             "OBJ_NOCA", "OBJ_SCORE150"}
Whitespace == {"\n", " "}

LLMContents ==
  { <<"OBJ_FULL">>,
    <<"<fence>json", "\n", "OBJ_FULL", "\n", "<fence>">>,
    <<"<fence>", "\n", "OBJ_NOCD", "\n", "<fence>">>,
    <<"prose">>,
    <<"prose", "<fence>json", "\n", "OBJ_FULL", "\n", "<fence>">>,
    <<"LIST">>,
    <<"OBJ_CDNULL">>,
    <<"OBJ_CDERR">>,
    <<"OBJ_NOCA">>,
    <<"OBJ_SCORE150">>,
    <<"<fence>json", "\n", "STR_OPEN", "<fence>", "STR_CLOSE", "\n",
      "<fence>">> }

\* What the completion call can do: raise (network error, timeout, API
\* error), return a message with content None, or return a content string.
LLMOutcomes ==
  { [kind |-> "raise"], [kind |-> "nocontent"] }
  \cup { [kind |-> "reply", content |-> c] : c \in LLMContents }

\* json.loads of the text of one JSON document.
JsonValue(doc) ==
  CASE doc = "OBJ_FULL" ->
         Dict([contract_data |-> Dict([property |-> "Marina 12"]),
               rental_events |-> <<"rent_payment_due", "renewal_deadline">>,
               completeness_analysis |-> [completeness_score |-> 85]])
    [] doc = "OBJ_NOCD" ->
         Dict([rental_events |-> <<"rent_payment_due">>,
               completeness_analysis |-> [completeness_score |-> 40]])
    [] doc = "OBJ_CDNULL" ->
         Dict([contract_data |-> [type |-> "null"],
               rental_events |-> <<>>,
               completeness_analysis |-> [completeness_score |-> 10]])
    [] doc = "OBJ_CDERR" ->
         Dict([contract_data |-> Dict([error |-> "cannot read contract"]),
               rental_events |-> <<"rent_payment_due">>,
               completeness_analysis |-> [completeness_score |-> 20]])
    [] doc = "OBJ_NOCA" ->
         Dict([contract_data |-> Dict([property |-> "Marina 12"]),
               rental_events |-> <<"rent_payment_due">>])
    [] doc = "OBJ_SCORE150" ->
         Dict([contract_data |-> Dict([property |-> "Marina 12"]),
               rental_events |-> <<"rent_payment_due">>,
               completeness_analysis |-> [completeness_score |-> 150]])
    [] doc = "LIST" -> [type |-> "list"]

(***************************************************************************)
(* String helpers.                                                         *)
(***************************************************************************)
RECURSIVE Remove(_, _)
\* s.replace(tok, "")
Remove(s, tok) ==
  IF s = <<>> THEN <<>>
  ELSE IF Head(s) = tok THEN Remove(Tail(s), tok)
       ELSE <<Head(s)>> \o Remove(Tail(s), tok)

RECURSIVE ReplaceTok(_, _, _)
ReplaceTok(s, tok, by) ==
  IF s = <<>> THEN <<>>
  ELSE <<IF Head(s) = tok THEN by ELSE Head(s)>> \o ReplaceTok(Tail(s), tok, by)

RECURSIVE LStrip(_)
LStrip(s) ==
  IF s # <<>> /\ Head(s) \in Whitespace THEN LStrip(Tail(s)) ELSE s

RECURSIVE RStrip(_)
RStrip(s) ==
  IF s # <<>> /\ s[Len(s)] \in Whitespace
    THEN RStrip(SubSeq(s, 1, Len(s) - 1)) ELSE s

\* str.strip()
Strip(s) == RStrip(LStrip(s))

StartsWith(s, tok) == s # <<>> /\ Head(s) = tok

\* The "clean the response" step of the three structuring services:
\*   if r.startswith(F + "json"): r = r.replace(F + "json", "").replace(F, "").strip()
\*   elif r.startswith(F):        r = r.replace(F, "").strip()
\* where F is the three-backtick fence, the token "<fence>".  In the elif
\* branch a later F + "json" loses its backticks and leaves "json".
CleanResponse(s) ==
  IF StartsWith(s, "<fence>json")
    THEN Strip(Remove(Remove(s, "<fence>json"), "<fence>"))
  ELSE IF StartsWith(s, "<fence>")
    THEN Strip(ReplaceTok(Remove(s, "<fence>"), "<fence>json", "json"))
  ELSE s

\* The tokens that can stand inside a JSON string.
StringTokens == {"<fence>", "<fence>json", "json", "prose"}

\* The text is a JSON object with one string value.
IsStringDoc(t) ==
  /\ Len(t) >= 2
  /\ t[1] = "STR_OPEN" /\ t[Len(t)] = "STR_CLOSE"
  /\ \A i \in 2..(Len(t) - 1) : t[i] \in StringTokens

\* json.loads(s): [ok, value]; ok = FALSE is json.JSONDecodeError.
JsonLoads(s) ==
  LET t == Strip(s) IN
  IF Len(t) = 1 /\ t[1] \in JsonDocs
    THEN [ok |-> TRUE, value |-> JsonValue(t[1])]
  ELSE IF IsStringDoc(t)
    THEN [ok |-> TRUE,
          value |-> Dict([note |-> SubSeq(t, 2, Len(t) - 1)])]
  ELSE [ok |-> FALSE]

(***************************************************************************)
(* The Contract Structuring Service, three copies.                         *)
(*                                                                         *)
(* Each copy is translated as its try body, which yields a value or the    *)
(* exception it raises, and the except clauses around it.  A service       *)
(* result is [raised, value]: raised = TRUE is an exception that leaves    *)
(* the service.                                                            *)
(***************************************************************************)
Value(v) == [exc |-> "none", value |-> v, fallback |-> FALSE]
FallbackValue(v) == [exc |-> "none", value |-> v, fallback |-> TRUE]
Raise(e) == [exc |-> e]
Returned(v, fb) == [raised |-> FALSE, value |-> v, fallback |-> fb]
Propagated(e) == [raised |-> TRUE, exc |-> e]

\* self.model = "gpt-4o-mini"
Model == "gpt-4o-mini"

\* str.lower() on one token.
Lower(tok) ==
  CASE tok = "Cheques" -> "cheques"
    [] tok = "AED" -> "aed"
    [] OTHER -> tok

\* Tokens that begin with "cheque".
ChequeTokens == {"cheque", "cheques"}

\* re.findall(r'AED\s*([0-9,]+)', raw_text): the positions of the matches.
RentMatches(raw_text) ==
  { i \in 1..(Len(raw_text) - 1) :
      raw_text[i] = "AED" /\ raw_text[i + 1] \in NumTokens }

\* The group ([0-9,]+) on a number: its longest prefix of digits and
\* commas.
RentCapture(tok) ==
  CASE tok = "4000.50" -> "4000"
    [] OTHER -> tok

\* re.findall(r'(\d+)\s*cheque', raw_text.lower())
ChequeMatches(raw_text) ==
  { i \in 1..(Len(raw_text) - 1) :
      raw_text[i] \in DigitTokens /\ Lower(raw_text[i + 1]) \in ChequeTokens }

\* re.findall(r'(\d{4}-\d{2}-\d{2})', raw_text)
DateMatches(raw_text) == SelectSeq(raw_text, LAMBDA t : t \in DateTokens)

Min(S) == CHOOSE x \in S : \A y \in S : x <= y

\* ContractIntelligence._fallback_parsing, src/src/parser: the rule-based
\* extraction.  Nothing in its try body raises for a string raw_text.
Parser_fallback_parsing(raw_text) ==
  LET base ==
        [ rent_amount |-> None, monthly_rent |-> None,
          payment_schedule |-> None, lease_start_date |-> None,
          lease_end_date |-> None, deposit_amount |-> None,
          notice_period_days |-> None, maintenance_responsibility |-> None,
          maintenance_limit |-> None, furnished |-> None,
          agent_name |-> None, property_type |-> None,
          property_location |-> None, utilities_included |-> None,
          parking_spaces |-> None, balcony |-> None, gym |-> None,
          pool |-> None, ejari_number |-> None, tenant_name |-> None,
          landlord_name |-> None,
          parsed_at |-> Now,
          ai_model |-> "rule_based_fallback",
          confidence |-> "low",
          rental_events |-> <<>>,
          completeness_analysis |->
            [ completeness_score |-> 0,
              quality_status |-> "poor",
              missing_critical_fields |->
                <<"rent_amount", "lease_dates", "deposit_amount">>,
              missing_important_fields |->
                <<"payment_schedule", "notice_period">>,
              suggested_improvements |->
                <<"Manual review required - AI parsing failed">>,
              validation_notes |->
                "Fallback parsing used - limited data extraction" ] ]
      rent == RentMatches(raw_text)
      cheq == ChequeMatches(raw_text)
      dates == DateMatches(raw_text)
      d1 == IF (\E i \in 1..Len(raw_text) : raw_text[i] = "AED") /\ rent # {}
              THEN [base EXCEPT !.rent_amount =
                            <<"AED", RentCapture(raw_text[Min(rent) + 1])>>]
              ELSE base
      d2 == IF (\E i \in 1..Len(raw_text) : Lower(raw_text[i]) \in ChequeTokens)
                /\ cheq # {}
              THEN [d1 EXCEPT !.payment_schedule = <<raw_text[Min(cheq)], "cheques">>]
              ELSE d1
      d3 == IF Len(dates) >= 2
              THEN [d2 EXCEPT !.lease_start_date = <<dates[1]>>,
                              !.lease_end_date = <<dates[2]>>]
              ELSE d2
  IN d3

\* The try body of ContractIntelligence.parse_contract, src/src/parser,
\* lines 338-374, with the inner except json.JSONDecodeError.
Parser_try(raw_text, out) ==
  IF out.kind = "raise" THEN Raise("APIError")
  ELSE IF out.kind = "nocontent" THEN Raise("AttributeError")
  ELSE
    LET ai_response == CleanResponse(Strip(out.content))
        loaded == JsonLoads(ai_response)
    IN
    IF ~loaded.ok THEN FallbackValue(Parser_fallback_parsing(raw_text))
    ELSE IF ~IsDict(loaded.value) THEN Raise("AttributeError")
    ELSE
      LET analysis_result == loaded.value.d
          contract_data ==
            IF "contract_data" \in DOMAIN analysis_result
              THEN analysis_result.contract_data ELSE Dict(EmptyDict)
      IN
      IF ~IsDict(contract_data) THEN Raise("TypeError")
      ELSE Value(
        [ parsed_at |-> Now, ai_model |-> Model, confidence |-> "high",
          rental_events |->
            IF "rental_events" \in DOMAIN analysis_result
              THEN analysis_result.rental_events ELSE <<>>,
          completeness_analysis |->
            IF "completeness_analysis" \in DOMAIN analysis_result
              THEN analysis_result.completeness_analysis ELSE EmptyDict ]
        @@ contract_data.d)

\* Parser_parse_contract without its except Exception clause.
Parser_parse_contract_noexcept(raw_text, out) ==
  LET t == Parser_try(raw_text, out) IN
  IF t.exc = "none" THEN Returned(t.value, t.fallback)
  ELSE Propagated(t.exc)

\* ContractIntelligence.parse_contract, src/src/parser: except Exception
\* around the try body.
Parser_parse_contract(raw_text, out) ==
  LET t == Parser_try(raw_text, out) IN
  IF t.exc = "none" THEN Returned(t.value, t.fallback)
  ELSE Returned(Parser_fallback_parsing(raw_text), TRUE)

\* ContractIntelligence._fallback_parsing, src/api.
Api_fallback_parsing(raw_text) ==
  [ contract_data |->
      [ property |-> [building |-> "Unknown", unit |-> "Unknown",
                      location |-> "Unknown"],
        parties |-> [landlord |-> [name |-> "Unknown"],
                     tenant |-> [name |-> "Unknown"]],
        lease |-> [start_date |-> "Unknown", end_date |-> "Unknown"],
        rent |-> [annual_aed |-> 0, monthly_aed |-> 0],
        parsed_at |-> Now,
        ai_model |-> "fallback",
        confidence |-> "low" ],
    rental_events |-> <<>>,
    completeness_analysis |->
      [ completeness_score |-> 0,
        quality_status |-> "failed",
        missing_critical |-> <<"all_fields">>,
        actionable_gaps |-> <<>> ] ]

\* The try body of ContractIntelligence.parse_contract, src/api, lines 140-168.
Api_try(raw_text, out) ==
  IF out.kind = "raise" THEN Raise("APIError")
  ELSE IF out.kind = "nocontent" THEN Raise("AttributeError")
  ELSE
    LET ai_response == CleanResponse(Strip(out.content))
        loaded == JsonLoads(ai_response)
    IN
    IF ~loaded.ok THEN Raise("JSONDecodeError")
    ELSE IF ~IsDict(loaded.value) THEN Raise("AttributeError")
    ELSE
      LET analysis_result == loaded.value.d
          contract_data ==
            IF "contract_data" \in DOMAIN analysis_result
              THEN analysis_result.contract_data ELSE Dict(EmptyDict)
      IN
      IF ~IsDict(contract_data) THEN Raise("TypeError")
      ELSE Value(
        [ parsed_at |-> Now, ai_model |-> Model, confidence |-> "high",
          rental_events |->
            IF "rental_events" \in DOMAIN analysis_result
              THEN analysis_result.rental_events ELSE <<>>,
          completeness_analysis |->
            IF "completeness_analysis" \in DOMAIN analysis_result
              THEN analysis_result.completeness_analysis ELSE EmptyDict ]
        @@ contract_data.d)

\* Api_parse_contract with except json.JSONDecodeError alone.
Api_parse_contract_narrow(raw_text, out) ==
  LET t == Api_try(raw_text, out) IN
  IF t.exc = "none" THEN Returned(t.value, FALSE)
  ELSE IF t.exc = "JSONDecodeError"
    THEN Returned(Api_fallback_parsing(raw_text), TRUE)
  ELSE Propagated(t.exc)

\* ContractIntelligence.parse_contract, src/api: except json.JSONDecodeError
\* and except Exception, both returning the fallback.
Api_parse_contract(raw_text, out) ==
  LET t == Api_try(raw_text, out) IN
  IF t.exc = "none" THEN Returned(t.value, FALSE)
  ELSE IF t.exc = "JSONDecodeError"
    THEN Returned(Api_fallback_parsing(raw_text), TRUE)
  ELSE Returned(Api_fallback_parsing(raw_text), TRUE)

\* The dict of the except clause of analyze_contract_ai, src/api/index.py.
Index_fallback(e) ==
  Dict([ error |-> e,
         contract_data |->
           [ property |-> [building |-> "Error", unit |-> "Error",
                           location |-> "Error"],
             parties |-> [landlord |-> [name |-> "Error"],
                          tenant |-> [name |-> "Error"]],
             rent |-> [annual_aed |-> 0, monthly_aed |-> 0],
             deposit |-> [refundable_aed |-> 0] ],
         rental_events |-> <<>>,
         completeness_analysis |->
           [ completeness_score |-> 0,
             missing_critical |-> <<>>,
             actionable_gaps |-> <<>> ] ])

\* The try body of analyze_contract_ai, src/api/index.py, lines 370-388:
\* the decoded JSON value is returned as it is, whatever its type.
Index_try(text, out) ==
  IF out.kind = "raise" THEN Raise("APIError")
  ELSE IF out.kind = "nocontent" THEN Raise("AttributeError")
  ELSE
    LET result == CleanResponse(Strip(out.content))
        loaded == JsonLoads(result)
    IN
    IF ~loaded.ok THEN Raise("JSONDecodeError") ELSE Value(loaded.value)

\* analyze_contract_ai, src/api/index.py.
analyze_contract_ai(text, out) ==
  LET t == Index_try(text, out) IN
  IF t.exc = "none" THEN Returned(t.value, FALSE)
  ELSE Returned(Index_fallback(t.exc), TRUE)

(***************************************************************************)
(* The OCR upstream and the OCR gateway.                                   *)
(***************************************************************************)
\* The dicts the OCR upstream can send as its JSON body.
OcrDicts ==
  { [extraction_status |-> "success", raw_text |-> t] : t \in Texts }
  \cup { [extraction_status |-> "success"],
         [extraction_status |-> "failed", error |-> "no pages"] }

\* What one POST to the OCR upstream can do: a network error or timeout,
\* or a response with a status and a body that is JSON or not.
OcrOutcomes ==
  { [kind |-> "neterr"],
    [kind |-> "http", status |-> 500, body |-> [json |-> FALSE]],
    [kind |-> "http", status |-> 200, body |-> [json |-> FALSE]],
    [kind |-> "http", status |-> 200,
     body |-> [json |-> TRUE, value |-> [type |-> "list"]]] }
  \cup { [kind |-> "http", status |-> 200,
          body |-> [json |-> TRUE, value |-> Dict(d)]] : d \in OcrDicts }

\* response.raise_for_status() raises for 4xx and 5xx.
RaisesForStatus(status) == status >= 400 /\ status < 600

\* The operations of the OCR gateway.
GatewayOps ==
  {"process_file", "process_file_base64", "process_contract", "process_ocr"}

\* A JSON value returned where a dict is expected.
NotADict == [nondict |-> TRUE]

\* ColabOCRClient.process_file when Path(file_path).exists() is false.
FileNotFound == [error |-> "File not found"]

\* What one POST does inside a try body that goes on with
\* raise_for_status(), response.json() and result.get(...).
Post_raise_for_status(out) ==
  IF out.kind = "neterr" THEN Raise("ConnectionError")
  ELSE IF RaisesForStatus(out.status) THEN Raise("HTTPError")
  ELSE IF ~out.body.json THEN Raise("JSONDecodeError")
  ELSE IF ~IsDict(out.body.value) THEN Raise("AttributeError")
  ELSE Value(out.body.value.d)

\* The try body of an operation of the gateway: exists says whether the
\* file at file_path is there, out what the POST does when it is made.
Gateway_try(op, exists, out) ==
  CASE op = "process_file" ->
         \* src/colab_client.py, lines 48-63
         IF ~exists THEN Value(FileNotFound) ELSE Post_raise_for_status(out)
    [] op = "process_file_base64" ->
         \* src/colab_client.py, lines 80-94: open() raises
         IF ~exists THEN Raise("FileNotFoundError")
         ELSE Post_raise_for_status(out)
    [] op = "process_contract" ->
         \* src/api/colab_client.py, lines 30-38: the JSON of a 200 is
         \* returned whatever it is
         IF ~exists THEN Raise("FileNotFoundError")
         ELSE IF out.kind = "neterr" THEN Raise("ConnectionError")
         ELSE IF out.status = 200
           THEN IF ~out.body.json THEN Raise("JSONDecodeError")
                ELSE IF ~IsDict(out.body.value) THEN Value(NotADict)
                ELSE Value(out.body.value.d)
         ELSE Value([text |-> <<>>, error |-> "HTTP error"])
    [] op = "process_ocr" ->
         \* src/api/index.py, lines 29-46
         IF ~exists THEN Raise("FileNotFoundError")
         ELSE IF out.kind = "neterr" THEN Raise("ConnectionError")
         ELSE IF out.status = 200
           THEN IF ~out.body.json THEN Raise("JSONDecodeError")
                ELSE IF ~IsDict(out.body.value) THEN Raise("AttributeError")
                ELSE Value(out.body.value.d)
         ELSE Value([raw_text |-> <<>>, error |-> "HTTP error"])

\* f"OCR Exception: {str(e)}"
OcrExceptionMsg(e) ==
  CASE e = "ConnectionError" -> "OCR Exception: ConnectionError"
    [] e = "JSONDecodeError" -> "OCR Exception: JSONDecodeError"
    [] e = "AttributeError" -> "OCR Exception: AttributeError"
    [] e = "FileNotFoundError" -> "OCR Exception: FileNotFoundError"
    [] OTHER -> "OCR Exception"

\* The dict of the except Exception clause of an operation of the gateway.
Gateway_failed(op, e) ==
  CASE op \in {"process_file", "process_file_base64"} -> [error |-> e]
    [] op = "process_contract" -> [text |-> <<>>, error |-> e]
    [] op = "process_ocr" -> [raw_text |-> <<>>, error |-> OcrExceptionMsg(e)]

\* Gateway_call without the except clause: the exception leaves the
\* operation.
Gateway_call_noexcept(op, exists, out) ==
  LET t == Gateway_try(op, exists, out) IN
  IF t.exc = "none" THEN t.value ELSE Raise(t.exc)

\* An operation of the gateway: its try body inside except Exception.
Gateway_call(op, exists, out) ==
  LET t == Gateway_try(op, exists, out) IN
  IF t.exc = "none" THEN t.value ELSE Gateway_failed(op, t.exc)

\* ColabOCRClient.process_file, src/colab_client.py, once the file is known
\* to exist: the upstream's answer becomes the returned dict.
process_file(out) == Gateway_call("process_file", TRUE, out)

\* process_ocr, src/api/index.py, on the temporary file of the request.
process_ocr(out) == Gateway_call("process_ocr", TRUE, out)

\* base64.b64encode(data): the encoding of a byte string, another string
\* of which b64decode gives the bytes back.
B64Encode(data) == [i \in 1..Len(data) |-> data[i] + 64]

\* Python's dict.get(key, default).
Get(d, k, default) == IF k \in DOMAIN d THEN d[k] ELSE default

(***************************************************************************)
(* The file system: a path names an inode (0: no file), an inode has       *)
(* data.  A request's open file refers to the inode, not to the path.      *)
(***************************************************************************)
\* temp_path = f"temp_{file.filename}", relative to the working directory.
AgentPath(f) == [dir |-> "cwd", name |-> f]
\* tempfile.NamedTemporaryFile(delete=False, suffix='.pdf'): a fresh name.
IndexPath(r) == [dir |-> "tmp", name |-> ToString(r)]
Paths == {AgentPath(f) : f \in Filenames} \cup {IndexPath(r) : r \in Reqs}

\* Writing data at offset 0 of a file that holds old.
Overwrite(old, data) ==
  IF Len(old) > Len(data)
    THEN data \o SubSeq(old, Len(data) + 1, Len(old))
    ELSE data

VARIABLES
  keyPresent,       \* OPENAI_API_KEY is set in the environment
  appState,         \* agent app: "down", "serving"
  colab_client,     \* agent global: TRUE once constructed
  contract_parser,  \* agent global: TRUE once constructed
  clientsMade,      \* ColabOCRClient instances constructed
  parsersMade,      \* ContractIntelligence instances constructed
  running,          \* the request whose handler body runs, or 0
  fs,               \* path -> inode
  idata,            \* inode -> data
  pc,               \* per request: position in its handler
  handler,          \* per request: "agent" or "index"
  filename,         \* per request: file.filename
  content,          \* per request: the uploaded bytes
  fd,               \* per request: the inode of its open temporary file
  ocrCalls,         \* per request: POSTs to the OCR upstream
  ocrInput,         \* per request: the bytes sent to the OCR upstream
  ocrOut,           \* per request: what the OCR upstream did
  ocr_result,       \* per request: the local ocr_result
  svc,              \* per request: state of the structuring service
  llmCalls,         \* per request: calls of the completion endpoint
  llmInput,         \* per request: the text given to the structuring service
  llmOut,           \* per request: what the completion call did
  analysis,         \* per request: what the structuring service returned
  resp,             \* per request: the HTTP response
  encCalls,         \* per request: POSTs to the encoder (the /ocr proxy)
  encOut,           \* per request: what the encoder did
  probe,            \* per request: the upstreams' reachability at a health check
  worker            \* per request: the event and the run of the OCR worker

globals == <<keyPresent, appState, colab_client, contract_parser,
             clientsMade, parsersMade>>
files == <<fs, idata>>
upload == <<handler, filename, content>>
ocrVars == <<ocrCalls, ocrInput, ocrOut, ocr_result>>
llmVars == <<svc, llmCalls, llmInput, llmOut, analysis>>
encVars == <<encCalls, encOut>>
vars == <<globals, running, files, pc, upload, fd, ocrVars, llmVars, resp,
         encVars, probe, worker>>

NoResp == [status |-> 0]
NoInput == <<0>>
NoText == <<"<unset>">>
NoOut == [kind |-> "none"]
NoProbe == [ocrUp |-> FALSE, llmUp |-> FALSE, made |-> FALSE]
NoRun == [kind |-> "none"]
NoJob == [event |-> [input |-> EmptyDict], run |-> NoRun]

Linked(i) == \E p \in Paths : fs[p] = i

Init ==
  /\ keyPresent \in BOOLEAN
  /\ appState = "down"
  /\ colab_client = FALSE
  /\ contract_parser = FALSE
  /\ clientsMade = 0
  /\ parsersMade = 0
  /\ running = 0
  /\ fs = [p \in Paths |-> 0]
  /\ idata = [i \in Reqs |-> <<>>]
  /\ pc = [r \in Reqs |-> "new"]
  /\ handler = [r \in Reqs |-> "none"]
  /\ filename = [r \in Reqs |-> "none"]
  /\ content = [r \in Reqs |-> <<>>]
  /\ fd = [r \in Reqs |-> 0]
  /\ ocrCalls = [r \in Reqs |-> 0]
  /\ ocrInput = [r \in Reqs |-> NoInput]
  /\ ocrOut = [r \in Reqs |-> NoOut]
  /\ ocr_result = [r \in Reqs |-> Unset]
  /\ svc = [r \in Reqs |-> "Idle"]
  /\ llmCalls = [r \in Reqs |-> 0]
  /\ llmInput = [r \in Reqs |-> NoText]
  /\ llmOut = [r \in Reqs |-> NoOut]
  /\ analysis = [r \in Reqs |-> Unset]
  /\ resp = [r \in Reqs |-> NoResp]
  /\ encCalls = [r \in Reqs |-> 0]
  /\ encOut = [r \in Reqs |-> NoOut]
  /\ probe = [r \in Reqs |-> NoProbe]
  /\ worker = [r \in Reqs |-> NoJob]

(***************************************************************************)
(* Construction of the clients.                                            *)
(***************************************************************************)
\* ContractIntelligence.__init__: OpenAI(api_key=os.getenv("OPENAI_API_KEY")).
\* With the key set the client is constructed.  Without it the outcome is
\* the SDK's: the constructor raises (openai 1.x rejects a missing key), or
\* it constructs a client whose every call fails.
ParserInitOutcomes(key) == IF key THEN {"ok"} ELSE {"ok", "raise"}

\* What the completion call can do given the environment: without a key no
\* completion is ever returned.
LLMOutcomesFor(key) ==
  IF key THEN LLMOutcomes ELSE {o \in LLMOutcomes : o.kind = "raise"}

\* get_colab_client() without the test of the global.
get_colab_client_fresh ==
  colab_client' = TRUE /\ clientsMade' = clientsMade + 1

\* get_colab_client(): ColabOCRClient.__init__ only stores URLs.
get_colab_client ==
  IF colab_client
    THEN UNCHANGED <<colab_client, clientsMade>>
    ELSE colab_client' = TRUE /\ clientsMade' = clientsMade + 1

\* get_contract_parser() when the constructor does o; raises iff o = "raise"
\* and no parser was constructed before.
get_contract_parser(o) ==
  IF contract_parser \/ o = "raise"
    THEN UNCHANGED <<contract_parser, parsersMade>>
    ELSE contract_parser' = TRUE /\ parsersMade' = parsersMade + 1

ParserRaises(o) == ~contract_parser /\ o = "raise"

\* The __main__ block of the agent: both handles are constructed, each in
\* its own try/except, then uvicorn serves.
Agent_Main ==
  /\ appState = "down"
  /\ get_colab_client
  /\ \E o \in ParserInitOutcomes(keyPresent) : get_contract_parser(o)
  /\ appState' = "serving"
  /\ UNCHANGED <<keyPresent, running, files, pc, upload, fd, ocrVars,
                 llmVars, resp>>
  /\ UNCHANGED encVars
  /\ UNCHANGED <<probe, worker>>

\* The agent module imported by a server (uvicorn module:app): nothing is
\* constructed before the first request.
Agent_Import ==
  /\ appState = "down"
  /\ appState' = "serving"
  /\ UNCHANGED <<keyPresent, colab_client, contract_parser, clientsMade,
                 parsersMade, running, files, pc, upload, fd, ocrVars,
                 llmVars, resp>>
  /\ UNCHANGED encVars
  /\ UNCHANGED <<probe, worker>>

(***************************************************************************)
(* /analyze of src/contract_intelligence_agent.py.                         *)
(*                                                                         *)
(* The handler is a coroutine: it gives up the event loop only at          *)
(* "await file.read()", inside the with block that has opened the          *)
(* temporary file.  Everything after it runs without another request in    *)
(* between; the model runs one handler body at a time, also across the     *)
(* two apps and the direct calls, which share no state.                    *)
(***************************************************************************)
\* The except clause of the agent: a dict, sent with FastAPI's default 200.
AgentFailed(e) ==
  [status |-> 200, body |-> Dict([error |-> e, status |-> "failed"])]

Agent_Fail(r, e) ==
  /\ resp' = [resp EXCEPT ![r] = AgentFailed(e)]
  /\ pc' = [pc EXCEPT ![r] = "done"]
  /\ UNCHANGED running

\* Lines 575-580: open(temp_path, "wb") creates or truncates the file, then
\* the coroutine awaits the upload.
Agent_Start(r) ==
  /\ pc[r] = "new"
  /\ appState = "serving"
  /\ running = 0
  /\ \E f \in Filenames, c \in {Content(r)} :
       LET p == AgentPath(f)
           i == IF fs[p] = 0 THEN r ELSE fs[p]
       IN /\ handler' = [handler EXCEPT ![r] = "agent"]
          /\ filename' = [filename EXCEPT ![r] = f]
          /\ content' = [content EXCEPT ![r] = c]
          /\ fs' = [fs EXCEPT ![p] = i]
          /\ idata' = [idata EXCEPT ![i] = <<>>]
          /\ fd' = [fd EXCEPT ![r] = i]
  /\ pc' = [pc EXCEPT ![r] = "read"]
  /\ UNCHANGED <<globals, running, ocrVars, llmVars, resp>>
  /\ UNCHANGED encVars
  /\ UNCHANGED <<probe, worker>>

\* Lines 580-581: the upload arrives, is written through the open file at
\* offset 0 and the file is closed.  A file unlinked meanwhile takes the
\* bytes with it.
Agent_Resume(r) ==
  /\ pc[r] = "read" /\ handler[r] = "agent"
  /\ running = 0
  /\ idata' = [idata EXCEPT ![fd[r]] =
                 IF Linked(fd[r]) THEN Overwrite(@, content[r]) ELSE @]
  /\ running' = r
  /\ pc' = [pc EXCEPT ![r] = "ocr"]
  /\ UNCHANGED <<globals, fs, upload, fd, ocrVars, llmVars, resp>>
  /\ UNCHANGED encVars
  /\ UNCHANGED <<probe, worker>>

\* Lines 585-586 and process_file up to the POST: the file at temp_path is
\* read and sent, or process_file returns "File not found" without a call.
Agent_OcrCall(r) ==
  /\ pc[r] = "ocr" /\ handler[r] = "agent"
  /\ get_colab_client
  /\ LET p == AgentPath(filename[r]) IN
     IF fs[p] = 0
       THEN /\ ocr_result' = [ocr_result EXCEPT ![r] = FileNotFound]
            /\ pc' = [pc EXCEPT ![r] = "ocr_done"]
            /\ UNCHANGED <<ocrCalls, ocrInput, ocrOut>>
       ELSE /\ ocrInput' = [ocrInput EXCEPT ![r] = idata[fs[p]]]
            /\ ocrCalls' = [ocrCalls EXCEPT ![r] = @ + 1]
            /\ pc' = [pc EXCEPT ![r] = "ocr_wait"]
            /\ UNCHANGED <<ocrOut, ocr_result>>
  /\ UNCHANGED <<keyPresent, appState, contract_parser, parsersMade, running,
                 files, upload, fd, llmVars, resp>>
  /\ UNCHANGED encVars
  /\ UNCHANGED <<probe, worker>>

\* process_file from the POST on: the upstream answers.
Agent_OcrReturn(r) ==
  /\ pc[r] = "ocr_wait" /\ handler[r] = "agent"
  /\ \E out \in OcrOutcomes :
       /\ ocrOut' = [ocrOut EXCEPT ![r] = out]
       /\ ocr_result' = [ocr_result EXCEPT ![r] = process_file(out)]
  /\ pc' = [pc EXCEPT ![r] = "ocr_done"]
  /\ UNCHANGED <<globals, running, files, upload, fd, ocrCalls, ocrInput,
                 llmVars, resp>>
  /\ UNCHANGED encVars
  /\ UNCHANGED <<probe, worker>>

\* Agent_StructuringInput reading the key "text" of the other OCR clients.
Agent_StructuringInput_text(res) == Get(res, "text", <<>>)

\* The text the agent hands to the structuring service: ocr_result["raw_text"].
Agent_StructuringInput(res) == res.raw_text

\* Lines 588-596 and parse_contract up to the completion call.
Agent_CheckOcr(r) ==
  /\ pc[r] = "ocr_done" /\ handler[r] = "agent"
  /\ IF Get(ocr_result[r], "extraction_status", "<None>") # "success"
       THEN /\ Agent_Fail(r, <<"OCR failed",
                               Get(ocr_result[r], "error", "Unknown error")>>)
            /\ UNCHANGED <<contract_parser, parsersMade, llmVars>>
       ELSE \E o \in ParserInitOutcomes(keyPresent) :
         /\ get_contract_parser(o)
         /\ IF ParserRaises(o)
              THEN /\ Agent_Fail(r, <<"OpenAIError">>)
                   /\ UNCHANGED llmVars
            ELSE IF "raw_text" \notin DOMAIN ocr_result[r]
              THEN /\ Agent_Fail(r, <<"KeyError", "raw_text">>)
                   /\ UNCHANGED llmVars
            ELSE /\ llmCalls[r] < MaxLLMCalls
                 /\ llmInput' = [llmInput EXCEPT ![r] =
                                   Agent_StructuringInput(ocr_result[r])]
                 /\ llmCalls' = [llmCalls EXCEPT ![r] = @ + 1]
                 /\ svc' = [svc EXCEPT ![r] = "Requesting"]
                 /\ pc' = [pc EXCEPT ![r] = "llm_wait"]
                 /\ UNCHANGED <<llmOut, analysis, running, resp>>
  /\ UNCHANGED <<keyPresent, appState, colab_client, clientsMade, files,
                 upload, fd, ocrVars>>
  /\ UNCHANGED encVars
  /\ UNCHANGED <<probe, worker>>

\* The state of the service once it has its result.
SvcStateOf(res) ==
  IF res.raised \/ res.fallback THEN "Failed" ELSE "Succeeded"

\* Agent_LlmReturn with a retry: a failed completion is asked for again.
Agent_LlmReturn_retry(r) ==
  /\ pc[r] = "llm_wait" /\ handler[r] = "agent"
  /\ \E out \in LLMOutcomesFor(keyPresent) :
       LET res == Parser_parse_contract(llmInput[r], out) IN
       /\ llmOut' = [llmOut EXCEPT ![r] = out]
       /\ IF res.fallback /\ llmCalls[r] < MaxLLMCalls
            THEN /\ llmCalls' = [llmCalls EXCEPT ![r] = @ + 1]
                 /\ UNCHANGED <<analysis, svc, pc>>
            ELSE /\ analysis' = [analysis EXCEPT ![r] = res]
                 /\ svc' = [svc EXCEPT ![r] = SvcStateOf(res)]
                 /\ pc' = [pc EXCEPT ![r] = "svc_done"]
                 /\ UNCHANGED llmCalls
  /\ UNCHANGED <<globals, running, files, upload, fd, ocrVars, llmInput,
                 resp>>
  /\ UNCHANGED encVars
  /\ UNCHANGED <<probe, worker>>

\* parse_contract from the completion call to its return statement.
Agent_LlmReturn(r) ==
  /\ pc[r] = "llm_wait" /\ handler[r] = "agent"
  /\ \E out \in LLMOutcomesFor(keyPresent) :
       LET res == Parser_parse_contract(llmInput[r], out) IN
       /\ llmOut' = [llmOut EXCEPT ![r] = out]
       /\ analysis' = [analysis EXCEPT ![r] = res]
       /\ svc' = [svc EXCEPT ![r] = SvcStateOf(res)]
  /\ pc' = [pc EXCEPT ![r] = "svc_done"]
  /\ UNCHANGED <<globals, running, files, upload, fd, ocrVars, llmCalls,
                 llmInput, resp>>
  /\ UNCHANGED encVars
  /\ UNCHANGED <<probe, worker>>

\* AgentSuccess that reads the events under the key "events".
AgentSuccess_events(ocr, contract_data) ==
  [status |-> 200,
   body |-> Dict([status |-> "success",
                  ocr_result |-> ocr,
                  contract_data |-> contract_data,
                  rental_events |-> Get(contract_data, "events", <<>>),
                  completeness_analysis |->
                    Get(contract_data, "completeness_analysis", EmptyDict),
                  analysis_time |-> Now])]

\* The dict of lines 610-617.
AgentSuccess(ocr, contract_data) ==
  [status |-> 200,
   body |-> Dict([status |-> "success",
                  ocr_result |-> ocr,
                  contract_data |-> contract_data,
                  rental_events |-> Get(contract_data, "rental_events", <<>>),
                  completeness_analysis |->
                    Get(contract_data, "completeness_analysis", EmptyDict),
                  analysis_time |-> Now])]

\* Lines 596-621 after parse_contract has returned.
Agent_Finish(r) ==
  /\ pc[r] = "svc_done" /\ handler[r] = "agent"
  /\ svc' = [svc EXCEPT ![r] = "Idle"]
  /\ LET p == AgentPath(filename[r]) IN
     IF analysis[r].raised
       THEN Agent_Fail(r, <<analysis[r].exc>>) /\ UNCHANGED files
     ELSE IF "error" \in DOMAIN analysis[r].value
       THEN Agent_Fail(r, <<"AI parsing failed">>) /\ UNCHANGED files
     ELSE IF fs[p] = 0
       THEN Agent_Fail(r, <<"FileNotFoundError">>) /\ UNCHANGED files
     ELSE /\ fs' = [fs EXCEPT ![p] = 0]
          /\ idata' = [idata EXCEPT ![fs[p]] = <<>>]
          /\ resp' = [resp EXCEPT ![r] =
                        AgentSuccess(ocr_result[r], analysis[r].value)]
          /\ pc' = [pc EXCEPT ![r] = "done"]
          /\ UNCHANGED running
  /\ UNCHANGED <<globals, upload, fd, ocrVars, llmCalls, llmInput, llmOut,
                 analysis>>
  /\ UNCHANGED encVars
  /\ UNCHANGED <<probe, worker>>

(***************************************************************************)
(* /api/analyze of src/api/index.py.                                       *)
(***************************************************************************)
IndexResponse(status, body) == [status |-> status, body |-> body]

\* The finally clause: os.unlink(temp_file_path), errors ignored.
Index_Unlink(r) ==
  LET p == IndexPath(r) IN
  IF fs[p] = 0 THEN UNCHANGED files
  ELSE /\ fs' = [fs EXCEPT ![p] = 0]
       /\ idata' = [idata EXCEPT ![fs[p]] = <<>>]

\* Lines 802-805: NamedTemporaryFile creates a file of a fresh name, then
\* the coroutine awaits the upload.
Index_Start(r) ==
  /\ pc[r] = "new"
  /\ running = 0
  /\ \E f \in Filenames, c \in {Content(r)} :
       /\ handler' = [handler EXCEPT ![r] = "index"]
       /\ filename' = [filename EXCEPT ![r] = f]
       /\ content' = [content EXCEPT ![r] = c]
  /\ fs' = [fs EXCEPT ![IndexPath(r)] = r]
  /\ idata' = [idata EXCEPT ![r] = <<>>]
  /\ fd' = [fd EXCEPT ![r] = r]
  /\ pc' = [pc EXCEPT ![r] = "read"]
  /\ UNCHANGED <<globals, running, ocrVars, llmVars, resp>>
  /\ UNCHANGED encVars
  /\ UNCHANGED <<probe, worker>>

\* Lines 805-807: the upload is written and the file closed.
Index_Resume(r) ==
  /\ pc[r] = "read" /\ handler[r] = "index"
  /\ running = 0
  /\ idata' = [idata EXCEPT ![fd[r]] =
                 IF Linked(fd[r]) THEN Overwrite(@, content[r]) ELSE @]
  /\ running' = r
  /\ pc' = [pc EXCEPT ![r] = "ocr"]
  /\ UNCHANGED <<globals, fs, upload, fd, ocrVars, llmVars, resp>>
  /\ UNCHANGED encVars
  /\ UNCHANGED <<probe, worker>>

\* Line 811 and process_ocr up to the POST.
Index_OcrCall(r) ==
  /\ pc[r] = "ocr" /\ handler[r] = "index"
  /\ ocrInput' = [ocrInput EXCEPT ![r] = idata[fs[IndexPath(r)]]]
  /\ ocrCalls' = [ocrCalls EXCEPT ![r] = @ + 1]
  /\ pc' = [pc EXCEPT ![r] = "ocr_wait"]
  /\ UNCHANGED <<globals, running, files, upload, fd, ocrOut, ocr_result,
                 llmVars, resp>>
  /\ UNCHANGED encVars
  /\ UNCHANGED <<probe, worker>>

\* process_ocr from the POST on.
Index_OcrReturn(r) ==
  /\ pc[r] = "ocr_wait" /\ handler[r] = "index"
  /\ \E out \in OcrOutcomes :
       /\ ocrOut' = [ocrOut EXCEPT ![r] = out]
       /\ ocr_result' = [ocr_result EXCEPT ![r] = process_ocr(out)]
  /\ pc' = [pc EXCEPT ![r] = "ocr_done"]
  /\ UNCHANGED <<globals, running, files, upload, fd, ocrCalls, ocrInput,
                 llmVars, resp>>
  /\ UNCHANGED encVars
  /\ UNCHANGED <<probe, worker>>

\* not ocr_result or not ocr_result.get('raw_text')
Index_OcrUnusable(res) ==
  DOMAIN res = {} \/ "raw_text" \notin DOMAIN res \/ res.raw_text = <<>>

\* The text index hands to the structuring service: ocr_result["raw_text"].
Index_StructuringInput(res) == res.raw_text

\* Lines 813-820 and analyze_contract_ai up to the completion call.
Index_CheckOcr(r) ==
  /\ pc[r] = "ocr_done" /\ handler[r] = "index"
  /\ IF Index_OcrUnusable(ocr_result[r])
       THEN /\ resp' = [resp EXCEPT ![r] =
                 IndexResponse(400, Dict([detail |-> <<"OCR processing failed">>]))]
            /\ Index_Unlink(r)
            /\ pc' = [pc EXCEPT ![r] = "done"]
            /\ UNCHANGED <<running, llmVars>>
       ELSE /\ llmCalls[r] < MaxLLMCalls
            /\ llmInput' = [llmInput EXCEPT ![r] =
                              Index_StructuringInput(ocr_result[r])]
            /\ llmCalls' = [llmCalls EXCEPT ![r] = @ + 1]
            /\ svc' = [svc EXCEPT ![r] = "Requesting"]
            /\ pc' = [pc EXCEPT ![r] = "llm_wait"]
            /\ UNCHANGED <<llmOut, analysis, running, resp, files>>
  /\ UNCHANGED <<globals, upload, fd, ocrVars>>
  /\ UNCHANGED encVars
  /\ UNCHANGED <<probe, worker>>

\* analyze_contract_ai from the completion call to its return statement.
Index_LlmReturn(r) ==
  /\ pc[r] = "llm_wait" /\ handler[r] = "index"
  /\ \E out \in LLMOutcomesFor(keyPresent) :
       LET res == analyze_contract_ai(llmInput[r], out) IN
       /\ llmOut' = [llmOut EXCEPT ![r] = out]
       /\ analysis' = [analysis EXCEPT ![r] = res]
       /\ svc' = [svc EXCEPT ![r] = SvcStateOf(res)]
  /\ pc' = [pc EXCEPT ![r] = "svc_done"]
  /\ UNCHANGED <<globals, running, files, upload, fd, ocrVars, llmCalls,
                 llmInput, resp>>
  /\ UNCHANGED encVars
  /\ UNCHANGED <<probe, worker>>

\* Lines 820-835 after analyze_contract_ai has returned: the result is the
\* body of a 200 response; an exception becomes a 500; the finally clause
\* unlinks the temporary file on both.
Index_Finish(r) ==
  /\ pc[r] = "svc_done" /\ handler[r] = "index"
  /\ svc' = [svc EXCEPT ![r] = "Idle"]
  /\ resp' = [resp EXCEPT ![r] =
       IF analysis[r].raised
         THEN IndexResponse(500,
                Dict([detail |-> <<"Analysis failed", analysis[r].exc>>]))
         ELSE IndexResponse(200, analysis[r].value)]
  /\ Index_Unlink(r)
  /\ pc' = [pc EXCEPT ![r] = "done"]
  /\ UNCHANGED <<globals, running, upload, fd, ocrVars, llmCalls, llmInput,
                 llmOut, analysis>>
  /\ UNCHANGED encVars
  /\ UNCHANGED <<probe, worker>>

(***************************************************************************)
(* ContractIntelligence of src/api/contract_intelligence.py, called on a   *)
(* constructed instance with a text.  The call blocks its caller.          *)
(***************************************************************************)
\* parse_contract up to the completion call.
Api_Call(r) ==
  /\ pc[r] = "new"
  /\ running = 0
  /\ running' = r
  /\ llmCalls[r] < MaxLLMCalls
  /\ handler' = [handler EXCEPT ![r] = "api"]
  /\ \E text \in Texts : llmInput' = [llmInput EXCEPT ![r] = text]
  /\ llmCalls' = [llmCalls EXCEPT ![r] = @ + 1]
  /\ svc' = [svc EXCEPT ![r] = "Requesting"]
  /\ pc' = [pc EXCEPT ![r] = "llm_wait"]
  /\ UNCHANGED <<globals, files, filename, content, fd, ocrVars, llmOut,
                 analysis, resp>>
  /\ UNCHANGED encVars
  /\ UNCHANGED <<probe, worker>>

\* parse_contract from the completion call to its return statement.
Api_LlmReturn(r) ==
  /\ pc[r] = "llm_wait" /\ handler[r] = "api"
  /\ \E out \in LLMOutcomesFor(keyPresent) :
       LET res == Api_parse_contract(llmInput[r], out) IN
       /\ llmOut' = [llmOut EXCEPT ![r] = out]
       /\ analysis' = [analysis EXCEPT ![r] = res]
       /\ svc' = [svc EXCEPT ![r] = SvcStateOf(res)]
  /\ pc' = [pc EXCEPT ![r] = "svc_done"]
  /\ UNCHANGED <<globals, running, files, upload, fd, ocrVars, llmCalls,
                 llmInput, resp>>
  /\ UNCHANGED encVars
  /\ UNCHANGED <<probe, worker>>

\* The caller has the result.
Api_Done(r) ==
  /\ pc[r] = "svc_done" /\ handler[r] = "api"
  /\ svc' = [svc EXCEPT ![r] = "Idle"]
  /\ pc' = [pc EXCEPT ![r] = "done"]
  /\ UNCHANGED <<globals, running, files, upload, fd, ocrVars, llmCalls,
                 llmInput, llmOut, analysis, resp>>
  /\ UNCHANGED encVars
  /\ UNCHANGED <<probe, worker>>

(***************************************************************************)
(* src/rp_handler.py, the OCR worker.                                      *)
(***************************************************************************)
\* A recognized line with its text, and one without the attribute.
Line(t) == [text |-> t]
NoTextLine == [bbox |-> 0]

\* A page's prediction with its lines, and one without text_lines.
Page(lines) == [text_lines |-> lines]
NoLinesPage == [bboxes |-> 0]

\* sep.join(parts)
RECURSIVE Join(_, _)
Join(sep, parts) ==
  IF parts = <<>> THEN <<>>
  ELSE IF Len(parts) = 1 THEN parts[1]
  ELSE parts[1] \o sep \o Join(sep, Tail(parts))

\* getattr(ln, "text", "")
LineText(ln) == IF "text" \in DOMAIN ln THEN ln.text ELSE <<>>

\* if t and t.strip()
LineKept(ln) ==
  /\ LineText(ln) # <<>>
  /\ LineText(ln) # None
  /\ Strip(LineText(ln)) # <<>>

\* The lines list of one prediction.
PageLines(p) ==
  IF "text_lines" \in DOMAIN p
    THEN LET kept == SelectSeq(p.text_lines, LineKept)
         IN [i \in 1..Len(kept) |-> LineText(kept[i])]
    ELSE <<>>

\* run_surya_ocr without the test of the line's text.
run_surya_ocr_keepblank(preds) ==
  Join(<<"\n", "\n">>,
       [i \in 1..Len(preds) |->
          Join(<<"\n">>,
               IF "text_lines" \in DOMAIN preds[i]
                 THEN [k \in 1..Len(preds[i].text_lines) |->
                         IF LineText(preds[i].text_lines[k]) = None
                           THEN <<>>
                           ELSE LineText(preds[i].text_lines[k])]
                 ELSE <<>>)])

run_surya_ocr(preds) ==
  Join(<<"\n", "\n">>,
       [i \in 1..Len(preds) |-> Join(<<"\n">>, PageLines(preds[i]))])

\* What b64decode, pdf_to_images and the predictors can do: raise, or
\* return one prediction per page.
WorkerRuns ==
  { [kind |-> "raise", msg |-> <<"Incorrect padding">>],
    [kind |-> "raise", msg |-> <<>>],
    [kind |-> "preds", preds |-> <<>>],
    [kind |-> "preds",
     preds |-> << Page(<< Line(<<"TENANCY">>), Line(<<" ">>), Line(<<>>),
                          Line(<<" ", "CONTRACT">>) >>) >>],
    [kind |-> "preds",
     preds |-> << Page(<< Line(<<"TENANCY">>), Line(None), NoTextLine >>),
                  Page(<< Line(<<" ", " ">>) >>),
                  NoLinesPage,
                  Page(<< Line(<<"RENT">>), Line(<<"AED">>) >>) >>],
    [kind |-> "preds", preds |-> << Page(<<>>) >>] }

\* pdf_data = input.get('pdf_data'); if pdf_data
HasPdfData(event) ==
  "pdf_data" \in DOMAIN event.input /\ event.input.pdf_data # <<>>

\* handler(event) for a run of the OCR stack.
Worker_handler(event, run) ==
  LET input == event.input IN
  IF HasPdfData(event)
    THEN IF run.kind = "raise"
           THEN Dict([success |-> FALSE, error |-> run.msg])
           ELSE LET ocr_text == run_surya_ocr(run.preds) IN
                Dict([success |-> TRUE,
                      pages |-> Len(run.preds),
                      text_length |-> Len(ocr_text),
                      ocr_text |-> ocr_text])
    ELSE [type |-> "str", text |-> Get(input, "prompt", None)]

\* The events a job of request r can carry.
WorkerEvents(r) ==
  { [input |-> [pdf_data |-> B64Encode(Content(r))]],
    [input |-> [pdf_data |-> <<>>, prompt |-> <<"hello">>]],
    [input |-> EmptyDict] }

\* One job of the worker, from the event to the handler's return value.
Worker_Run(r) ==
  /\ pc[r] = "new"
  /\ running = 0
  /\ running' = r
  /\ handler' = [handler EXCEPT ![r] = "worker"]
  /\ \E event \in WorkerEvents(r) :
       \E run \in IF HasPdfData(event) THEN WorkerRuns ELSE {NoRun} :
         worker' = [worker EXCEPT ![r] =
                      [event |-> event, run |-> run,
                       result |-> Worker_handler(event, run)]]
  /\ pc' = [pc EXCEPT ![r] = "done"]
  /\ UNCHANGED <<globals, files, filename, content, fd, ocrVars, llmVars,
                 resp, encVars, probe>>

(***************************************************************************)
(* /ocr of src/api/ocr.py, the OCR proxy: validate, encode, OCR worker.    *)
(***************************************************************************)
\* file.filename.endswith('.pdf')
EndsWithPdf(f) == f \in {"a.pdf"}

\* requests.Response.ok: the status is below 400.
ResponseOk(status) == status < 400

\* The text the OCR worker extracts.
WorkerText == <<"TENANCY", "CONTRACT">>

\* What the POST to the encoder can do.
EncOutcomes(data) ==
  { [kind |-> "neterr"],
    [kind |-> "http", status |-> 500, body |-> [json |-> FALSE]],
    [kind |-> "http", status |-> 200, body |-> [json |-> FALSE]],
    [kind |-> "http", status |-> 200,
     body |-> [json |-> TRUE, value |-> Dict([base64 |-> B64Encode(data)])]],
    [kind |-> "http", status |-> 300,
     body |-> [json |-> TRUE, value |-> Dict([base64 |-> B64Encode(data)])]],
    [kind |-> "http", status |-> 200,
     body |-> [json |-> TRUE, value |-> Dict(EmptyDict)]] }

\* json={"input": {"pdf_data": pdf_base64}}
ProxyEvent(pdf_base64) == [input |-> [pdf_data |-> pdf_base64]]

\* The values the worker's handler can return for the proxy's event.
HandlerResults(pdf_base64) ==
  { Worker_handler(ProxyEvent(pdf_base64), run) : run \in WorkerRuns }

\* The JSON objects the OCR worker's endpoint can answer with: the
\* handler's return value under "output" or bare, and objects of other
\* shapes.
WorkerDicts(pdf_base64) ==
  { [output |-> h] : h \in HandlerResults(pdf_base64) }
  \cup { h.d : h \in HandlerResults(pdf_base64) }
  \cup
  { [output |-> Dict([success |-> TRUE, ocr_text |-> WorkerText])],
    [output |-> Dict([success |-> TRUE])],
    [output |-> Dict([ocr_text |-> WorkerText])],
    [output |-> Dict([success |-> FALSE, error |-> <<"bad pdf">>])],
    [output |-> Dict(EmptyDict)],
    [success |-> TRUE, ocr_text |-> WorkerText],
    [status |-> "FAILED"] }

\* What the POST to the OCR worker can do.
WorkerOutcomes(pdf_base64) ==
  { [kind |-> "neterr"],
    [kind |-> "http", status |-> 500, body |-> [json |-> FALSE]],
    [kind |-> "http", status |-> 200,
     body |-> [json |-> TRUE, value |-> [type |-> "list"]]] }
  \cup { [kind |-> "http", status |-> 200,
          body |-> [json |-> TRUE, value |-> Dict(d)]] :
            d \in WorkerDicts(pdf_base64) }

\* JSONResponse(status_code=status, content={"error": msg})
ProxyError(status, msg) == [status |-> status, body |-> Dict([error |-> msg])]

\* PlainTextResponse(content=text)
PlainText(text) == [status |-> 200, body |-> [type |-> "text", text |-> text]]

\* A step of ocr_pdf that ends the request with a response, or goes on
\* with a value.
ProxyDone(response) == [done |-> TRUE, resp |-> response]
ProxyGoOn(v) == [done |-> FALSE, value |-> v]

\* Lines 24-35: the answer of the encoder.
Proxy_encode_try(out) ==
  IF out.kind = "neterr" THEN Raise("ConnectionError")
  ELSE IF ~ResponseOk(out.status)
    THEN Value(ProxyDone(ProxyError(out.status, <<"Encoder error">>)))
  ELSE IF ~out.body.json THEN Raise("JSONDecodeError")
  ELSE IF ~IsDict(out.body.value) THEN Raise("AttributeError")
  ELSE LET pdf_base64 == Get(out.body.value.d, "base64", <<>>) IN
       IF pdf_base64 = <<>>
         THEN Value(ProxyDone(ProxyError(500,
                                <<"Encoder did not return base64">>)))
         ELSE Value(ProxyGoOn(pdf_base64))

\* The answer of the OCR worker read without the test of its success flag.
Proxy_worker_try_anytext(out) ==
  IF out.kind = "neterr" THEN Raise("ConnectionError")
  ELSE IF ~ResponseOk(out.status)
    THEN Value(ProxyDone(ProxyError(out.status, <<"RunPod API error">>)))
  ELSE IF ~out.body.json THEN Raise("JSONDecodeError")
  ELSE IF ~IsDict(out.body.value) THEN Raise("AttributeError")
  ELSE LET rp_json == out.body.value
           ocr_data == Get(rp_json.d, "output", rp_json)
       IN
       IF ~IsDict(ocr_data) THEN Raise("AttributeError")
       ELSE IF DOMAIN ocr_data.d = {}
         THEN Value(ProxyDone(ProxyError(500,
                Get(ocr_data.d, "error", <<"OCR processing failed">>))))
       ELSE Value(ProxyDone(PlainText(Get(ocr_data.d, "ocr_text", <<>>))))

\* Lines 47-56: the answer of the OCR worker.
Proxy_worker_try(out) ==
  IF out.kind = "neterr" THEN Raise("ConnectionError")
  ELSE IF ~ResponseOk(out.status)
    THEN Value(ProxyDone(ProxyError(out.status, <<"RunPod API error">>)))
  ELSE IF ~out.body.json THEN Raise("JSONDecodeError")
  ELSE IF ~IsDict(out.body.value) THEN Raise("AttributeError")
  ELSE LET rp_json == out.body.value
           ocr_data == Get(rp_json.d, "output", rp_json)
       IN
       IF ~IsDict(ocr_data) THEN Raise("AttributeError")
       ELSE IF DOMAIN ocr_data.d = {} \/ ~Get(ocr_data.d, "success", FALSE)
         THEN Value(ProxyDone(ProxyError(500,
                Get(ocr_data.d, "error", <<"OCR processing failed">>))))
       ELSE Value(ProxyDone(PlainText(Get(ocr_data.d, "ocr_text", <<>>))))

\* The except Exception clause of ocr_pdf around a step.
Proxy_except(t) ==
  IF t.exc = "none" THEN t.value ELSE ProxyDone(ProxyError(500, <<t.exc>>))

\* Lines 14-19: the filename is tested, then the coroutine awaits the
\* upload.
Proxy_Start(r) ==
  /\ pc[r] = "new"
  /\ running = 0
  /\ handler' = [handler EXCEPT ![r] = "ocr"]
  /\ \E f \in Filenames :
       /\ filename' = [filename EXCEPT ![r] = f]
       /\ IF ~EndsWithPdf(f)
            THEN /\ resp' = [resp EXCEPT ![r] =
                      ProxyError(400, <<"Only PDF files are supported">>)]
                 /\ pc' = [pc EXCEPT ![r] = "done"]
                 /\ running' = r
                 /\ UNCHANGED content
            ELSE /\ \E c \in {<<>>, Content(r)} :
                      content' = [content EXCEPT ![r] = c]
                 /\ pc' = [pc EXCEPT ![r] = "read"]
                 /\ UNCHANGED <<resp, running>>
  /\ UNCHANGED <<globals, files, fd, ocrVars, llmVars, encVars>>
  /\ UNCHANGED <<probe, worker>>

\* Lines 19-29: the upload has arrived; an empty one is rejected, another
\* is posted to the encoder.
Proxy_Resume(r) ==
  /\ pc[r] = "read" /\ handler[r] = "ocr"
  /\ running = 0
  /\ running' = r
  /\ IF content[r] = <<>>
       THEN /\ resp' = [resp EXCEPT ![r] = ProxyError(400, <<"Empty file">>)]
            /\ pc' = [pc EXCEPT ![r] = "done"]
            /\ UNCHANGED encCalls
       ELSE /\ encCalls' = [encCalls EXCEPT ![r] = @ + 1]
            /\ pc' = [pc EXCEPT ![r] = "enc_wait"]
            /\ UNCHANGED resp
  /\ UNCHANGED <<globals, files, upload, fd, ocrVars, llmVars, encOut>>
  /\ UNCHANGED <<probe, worker>>

\* Lines 24-46: the encoder answers; its base64 is posted to the OCR
\* worker.
Proxy_EncReturn(r) ==
  /\ pc[r] = "enc_wait" /\ handler[r] = "ocr"
  /\ \E out \in EncOutcomes(content[r]) :
       LET step == Proxy_except(Proxy_encode_try(out)) IN
       /\ encOut' = [encOut EXCEPT ![r] = out]
       /\ IF step.done
            THEN /\ resp' = [resp EXCEPT ![r] = step.resp]
                 /\ pc' = [pc EXCEPT ![r] = "done"]
                 /\ UNCHANGED <<ocrInput, ocrCalls>>
            ELSE /\ ocrInput' = [ocrInput EXCEPT ![r] = step.value]
                 /\ ocrCalls' = [ocrCalls EXCEPT ![r] = @ + 1]
                 /\ pc' = [pc EXCEPT ![r] = "ocr_wait"]
                 /\ UNCHANGED resp
  /\ UNCHANGED <<globals, running, files, upload, fd, ocrOut, ocr_result,
                 llmVars, encCalls>>
  /\ UNCHANGED <<probe, worker>>

\* Lines 38-59: the OCR worker answers.
Proxy_WorkerReturn(r) ==
  /\ pc[r] = "ocr_wait" /\ handler[r] = "ocr"
  /\ \E out \in WorkerOutcomes(ocrInput[r]) :
       /\ ocrOut' = [ocrOut EXCEPT ![r] = out]
       /\ resp' = [resp EXCEPT ![r] =
                     Proxy_except(Proxy_worker_try(out)).resp]
  /\ pc' = [pc EXCEPT ![r] = "done"]
  /\ UNCHANGED <<globals, running, files, upload, fd, ocrCalls, ocrInput,
                 ocr_result, llmVars, encVars>>
  /\ UNCHANGED <<probe, worker>>

(***************************************************************************)
(* The health endpoints.                                                   *)
(***************************************************************************)
\* What GET <colab>/health does when the OCR upstream is reachable or not.
HealthOutcomes(ocrUp) ==
  IF ocrUp
    THEN { [kind |-> "http", status |-> 200,
            body |-> [json |-> TRUE, value |-> Dict([status |-> "healthy"])]] }
    ELSE { [kind |-> "neterr"] }

\* ColabOCRClient.health_check, src/colab_client.py.
Colab_health_check(out) ==
  IF out.kind = "neterr" THEN [status |-> "unhealthy", error |-> "ConnectionError"]
  ELSE IF RaisesForStatus(out.status)
    THEN [status |-> "unhealthy", error |-> "HTTPError"]
  ELSE IF ~out.body.json
    THEN [status |-> "unhealthy", error |-> "JSONDecodeError"]
  ELSE IF IsDict(out.body.value) THEN out.body.value.d
  ELSE NotADict

\* "healthy" if value else "unhealthy"
HealthyIf(b) == IF b THEN "healthy" ELSE "unhealthy"

\* The dict of lines 635-640 of the agent's health_check.
AgentHealthBody(colab_health) ==
  Dict([status |-> "healthy",
        colab_api |-> colab_health,
        openai_api |-> [status |-> "healthy", model |-> Model],
        timestamp |-> Now])

\* GET /health of src/contract_intelligence_agent.py: the OCR upstream is
\* asked, the LLM is not.
Agent_Health(r) ==
  /\ pc[r] = "new"
  /\ appState = "serving"
  /\ running = 0
  /\ running' = r
  /\ handler' = [handler EXCEPT ![r] = "agent_health"]
  /\ get_colab_client
  /\ \E ocrUp \in BOOLEAN, llmUp \in BOOLEAN :
       /\ probe' = [probe EXCEPT ![r] =
                      [ocrUp |-> ocrUp, llmUp |-> llmUp, made |-> TRUE]]
       /\ \E out \in HealthOutcomes(ocrUp), o \in ParserInitOutcomes(keyPresent) :
            /\ get_contract_parser(o)
            /\ resp' = [resp EXCEPT ![r] =
                 [status |-> 200,
                  body |-> IF ParserRaises(o)
                             THEN Dict([status |-> "unhealthy",
                                        error |-> <<"OpenAIError">>])
                             ELSE AgentHealthBody(Colab_health_check(out))]]
  /\ pc' = [pc EXCEPT ![r] = "done"]
  /\ UNCHANGED <<keyPresent, appState, files, filename, content, fd, ocrVars,
                 llmVars, encVars>>
  /\ UNCHANGED worker

\* GET /api/health of src/api/index.py: the configuration is looked at, no
\* upstream is asked.  COLAB_URL has a default and is never empty.
Index_Health(r) ==
  /\ pc[r] = "new"
  /\ running = 0
  /\ running' = r
  /\ handler' = [handler EXCEPT ![r] = "index_health"]
  /\ \E ocrUp \in BOOLEAN, llmUp \in BOOLEAN :
       probe' = [probe EXCEPT ![r] =
                   [ocrUp |-> ocrUp, llmUp |-> llmUp, made |-> TRUE]]
  /\ resp' = [resp EXCEPT ![r] =
       [status |-> 200,
        body |-> Dict([status |-> "healthy",
                       timestamp |-> Now,
                       services |-> [colab_ocr |-> HealthyIf(TRUE),
                                     openai |-> HealthyIf(keyPresent)]])]]
  /\ pc' = [pc EXCEPT ![r] = "done"]
  /\ UNCHANGED <<globals, files, filename, content, fd, ocrVars, llmVars,
                 encVars>>
  /\ UNCHANGED worker

(***************************************************************************)
(* The operations of the OCR gateway, called on a file path by a caller    *)
(* other than the two handlers.  The call blocks its caller.               *)
(***************************************************************************)
\* The bytes an operation posts for the file data.
Gateway_Payload(op, data) ==
  IF op = "process_file_base64" THEN B64Encode(data) ELSE data

\* The operation up to the POST: the file at file_path is there or not.
Gateway_Call(r) ==
  /\ pc[r] = "new"
  /\ running = 0
  /\ running' = r
  /\ \E op \in GatewayOps, exists \in BOOLEAN :
       /\ handler' = [handler EXCEPT ![r] = op]
       /\ IF exists
            THEN /\ ocrInput' = [ocrInput EXCEPT ![r] =
                                   Gateway_Payload(op, Content(r))]
                 /\ ocrCalls' = [ocrCalls EXCEPT ![r] = @ + 1]
                 /\ pc' = [pc EXCEPT ![r] = "ocr_wait"]
                 /\ UNCHANGED ocr_result
            ELSE /\ ocr_result' = [ocr_result EXCEPT ![r] =
                                     Gateway_call(op, FALSE, NoOut)]
                 /\ pc' = [pc EXCEPT ![r] = "done"]
                 /\ UNCHANGED <<ocrInput, ocrCalls>>
  /\ UNCHANGED <<globals, files, filename, content, fd, ocrOut, llmVars,
                 resp, encVars>>
  /\ UNCHANGED <<probe, worker>>

\* The operation from the POST to its return statement.
Gateway_Return(r) ==
  /\ pc[r] = "ocr_wait" /\ handler[r] \in GatewayOps
  /\ \E out \in OcrOutcomes :
       /\ ocrOut' = [ocrOut EXCEPT ![r] = out]
       /\ ocr_result' = [ocr_result EXCEPT ![r] =
                           Gateway_call(handler[r], TRUE, out)]
  /\ pc' = [pc EXCEPT ![r] = "done"]
  /\ UNCHANGED <<globals, running, files, upload, fd, ocrCalls, ocrInput,
                 llmVars, resp, encVars>>
  /\ UNCHANGED <<probe, worker>>

\* The handler (or the call) of request r has returned: its result goes to
\* the caller, its locals are gone and the next request of the app runs.
Deliver(r) ==
  /\ pc[r] = "done"
  /\ pc' = [pc EXCEPT ![r] = "closed"]
  /\ running' = 0
  /\ handler' = [handler EXCEPT ![r] = "none"]
  /\ filename' = [filename EXCEPT ![r] = "none"]
  /\ content' = [content EXCEPT ![r] = <<>>]
  /\ fd' = [fd EXCEPT ![r] = 0]
  /\ ocrCalls' = [ocrCalls EXCEPT ![r] = 0]
  /\ ocrInput' = [ocrInput EXCEPT ![r] = NoInput]
  /\ ocrOut' = [ocrOut EXCEPT ![r] = NoOut]
  /\ ocr_result' = [ocr_result EXCEPT ![r] = Unset]
  /\ svc' = [svc EXCEPT ![r] = "Idle"]
  /\ llmCalls' = [llmCalls EXCEPT ![r] = 0]
  /\ llmInput' = [llmInput EXCEPT ![r] = NoText]
  /\ llmOut' = [llmOut EXCEPT ![r] = NoOut]
  /\ analysis' = [analysis EXCEPT ![r] = Unset]
  /\ resp' = [resp EXCEPT ![r] = NoResp]
  /\ encCalls' = [encCalls EXCEPT ![r] = 0]
  /\ encOut' = [encOut EXCEPT ![r] = NoOut]
  /\ probe' = [probe EXCEPT ![r] = NoProbe]
  /\ worker' = [worker EXCEPT ![r] = NoJob]
  /\ UNCHANGED <<globals, files>>

Next ==
  \/ Agent_Main
  \/ Agent_Import
  \/ \E r \in Reqs :
       \/ Agent_Start(r)
       \/ Agent_Resume(r)
       \/ Agent_OcrCall(r)
       \/ Agent_OcrReturn(r)
       \/ Agent_CheckOcr(r)
       \/ Agent_LlmReturn(r)
       \/ Agent_Finish(r)
       \/ Index_Start(r)
       \/ Index_Resume(r)
       \/ Index_OcrCall(r)
       \/ Index_OcrReturn(r)
       \/ Index_CheckOcr(r)
       \/ Index_LlmReturn(r)
       \/ Index_Finish(r)
       \/ Api_Call(r)
       \/ Api_LlmReturn(r)
       \/ Api_Done(r)
       \/ Gateway_Call(r)
       \/ Gateway_Return(r)
       \/ Proxy_Start(r)
       \/ Proxy_Resume(r)
       \/ Proxy_EncReturn(r)
       \/ Proxy_WorkerReturn(r)
       \/ Agent_Health(r)
       \/ Index_Health(r)
       \/ Worker_Run(r)
       \/ Deliver(r)

Spec == Init /\ [][Next]_vars

(***************************************************************************)
(* Vocabulary of the properties.                                           *)
(***************************************************************************)
\* Request r is an upload to one of the two /analyze handlers.
Upload(r) == handler[r] \in {"agent", "index"}

\* The handler of r has returned its response.
Responded(r) == Upload(r) /\ pc[r] = "done"

\* file.filename.endswith('.pdf')
IsPdf(f) == f \in {"a.pdf"}

ErrorStatus(st) == st >= 400 /\ st < 600

\* The OCR stage of r is over.
OcrOver(r) == ocr_result[r] # Unset

\* The OCR stage ended without usable text: the gateway's error dict, an
\* upstream dict without raw_text, an empty raw_text, a status that is not
\* "success" where the upstream reports one.
OcrFailed(r) ==
  /\ OcrOver(r)
  /\ \/ "error" \in DOMAIN ocr_result[r]
     \/ "raw_text" \notin DOMAIN ocr_result[r]
     \/ ocr_result[r].raw_text = <<>>

\* The OCR stage gave a text to structure.
OcrSucceeded(r) ==
  /\ OcrOver(r)
  /\ ~OcrFailed(r)
  /\ Get(ocr_result[r], "extraction_status", "success") = "success"

\* The completion call of r returned text that does not decode as JSON once
\* the fences are stripped.
Undecodable(r) ==
  /\ llmOut[r].kind = "reply"
  /\ ~JsonLoads(CleanResponse(Strip(llmOut[r].content))).ok

\* The structuring service of r has returned (or raised).
SvcOver(r) == analysis[r] # Unset

\* The dict the structuring service returned.
AnalysisDict(r) ==
  IF handler[r] = "index" THEN analysis[r].value.d ELSE analysis[r].value

\* A provenance field of an analysis: at the top level, or in contract_data.
Provenance(d, k) ==
  IF k \in DOMAIN d THEN d[k]
  ELSE IF "contract_data" \in DOMAIN d /\ k \in DOMAIN d.contract_data
    THEN d.contract_data[k]
  ELSE "<absent>"

ScoreZero(d) ==
  /\ "completeness_analysis" \in DOMAIN d
  /\ "completeness_score" \in DOMAIN d.completeness_analysis
  /\ d.completeness_analysis.completeness_score = 0

\* The analysis is a fallback analysis: score 0 and no events.
FallbackShaped(d) ==
  /\ ScoreZero(d)
  /\ "rental_events" \in DOMAIN d
  /\ d.rental_events = <<>>

\* The response of r is a 200 that carries an analysis with score 0 and is
\* not the agent's "failed" dict.
FallbackResponse(r) ==
  /\ resp[r].status = 200
  /\ HasKey(resp[r].body, "contract_data")
  /\ IsDict(resp[r].body) /\ ScoreZero(resp[r].body.d)
  /\ handler[r] = "agent" => resp[r].body.d.status = "success"

\* The temporary file of r.
TempPath(r) ==
  IF handler[r] = "agent" THEN AgentPath(filename[r]) ELSE IndexPath(r)

(***************************************************************************)
(* C1: for any OCR-stage failure (upstream non-2xx status, network error   *)
(* or timeout, OCR result without usable text) /analyze never invokes the  *)
(* structuring stage, responds with a 4xx/5xx status and the body has no   *)
(* contract_data key.                                                      *)
(* The agent answers its "failed" dict with status 200, and structures an  *)
(* empty raw_text.                                                         *)
(***************************************************************************)
C1_OcrFailureIsErrorResponse ==
  \A r \in Reqs :
    Upload(r) /\ OcrFailed(r) =>
      /\ llmCalls[r] = 0
      /\ pc[r] = "done" =>
           /\ ErrorStatus(resp[r].status)
           /\ ~HasKey(resp[r].body, "contract_data")

(***************************************************************************)
(* C2: whenever the LLM returns text that does not decode as JSON, the     *)
(* analysis the structuring stage returns has completeness score 0 and     *)
(* confidence and ai_model values that mark it as fallback output (not     *)
(* the model's name, not "high").                                          *)
(* analyze_contract_ai of index.py returns a fallback without either key.  *)
(***************************************************************************)
C2_UndecodableGivesMarkedFallback ==
  \A r \in Reqs :
    SvcOver(r) /\ Undecodable(r) =>
      /\ ~analysis[r].raised
      /\ ScoreZero(AnalysisDict(r))
      /\ Provenance(AnalysisDict(r), "confidence") \in {"low", "fallback"}
      /\ Provenance(AnalysisDict(r), "ai_model") \notin {"<absent>", Model}

(***************************************************************************)
(* C3: the temporary file of the upload is deleted by the time the         *)
(* /analyze request finishes, on every exit path.                          *)
(* The agent unlinks it on the success path alone.                         *)
(***************************************************************************)
C3_TempFileDeletedOnEveryExit ==
  \A r \in Reqs : Responded(r) => fs[TempPath(r)] = 0

(***************************************************************************)
(* C4: concurrent /analyze requests are independent: under every           *)
(* interleaving of two requests in flight, also with the same filename,    *)
(* each request's OCR input is what it would be alone, its own upload,     *)
(* and its temporary file is there when the OCR stage reads it.            *)
(* Two agent requests of one filename share temp_<filename>.               *)
(***************************************************************************)
C4_RequestsIndependent ==
  \A r \in Reqs :
    Upload(r) =>
      /\ ocrInput[r] # NoInput => ocrInput[r] = content[r]
      /\ ocr_result[r] # FileNotFound

(***************************************************************************)
(* C5: within one request the pipeline is strictly sequential: the         *)
(* structuring call begins only after the OCR call has completed, and the  *)
(* text passed to the structuring stage is exactly the text that request's *)
(* OCR call returned.                                                      *)
(***************************************************************************)
C5_StructuringAfterOcrOnItsText ==
  \A r \in Reqs :
    Upload(r) /\ llmCalls[r] > 0 =>
      /\ ocrCalls[r] = 1
      /\ ocrOut[r].kind = "http"
      /\ OcrOver(r)
      /\ HasKey(ocrOut[r].body.value, "raw_text")
      /\ llmInput[r] = ocrOut[r].body.value.d.raw_text

C5_Witness ==
  \E r \in Reqs :
    /\ Upload(r) /\ llmCalls[r] > 0
    /\ llmInput[r] # <<>>
    /\ handler[r] = "agent"

(***************************************************************************)
(* C6: within one request the completion endpoint is called at most once:  *)
(* no failure outcome leads to a retry or a second call, and the state of  *)
(* the service goes Idle -> Requesting -> Succeeded or Failed -> Idle.     *)
(***************************************************************************)
SvcStep(a, b) ==
  \/ a = b
  \/ a = "Idle" /\ b = "Requesting"
  \/ a = "Requesting" /\ b \in {"Succeeded", "Failed"}
  \/ a \in {"Succeeded", "Failed"} /\ b = "Idle"

C6_AtMostOneCompletionCall ==
  [][\A r \in Reqs :
       /\ llmCalls'[r] <= 1
       /\ SvcStep(svc[r], svc'[r])
       /\ svc[r] = "Idle" /\ svc'[r] = "Requesting" => llmCalls'[r] = 1
       /\ svc[r] = "Requesting" /\ pc'[r] # "closed" =>
            llmCalls'[r] = llmCalls[r]]_vars

C6_Witness ==
  \E r \in Reqs :
    /\ handler[r] = "agent"
    /\ pc[r] = "done"
    /\ llmOut[r].kind \in {"raise", "nocontent"} \/ Undecodable(r)
    /\ llmCalls[r] = 1

(***************************************************************************)
(* C7: if the LLM call times out or raises, /analyze still responds with   *)
(* HTTP 200 carrying the fallback analysis with completeness score 0; the  *)
(* failure does not reach the caller as an error response or exception.    *)
(***************************************************************************)
C7_LlmFailureStill200 ==
  \A r \in Reqs :
    Responded(r) /\ llmOut[r].kind = "raise" => FallbackResponse(r)

C7_Witness ==
  \E r \in Reqs :
    /\ Responded(r) /\ llmOut[r].kind = "raise"
    /\ handler[r] = "agent"
    /\ resp[r].status = 200

(***************************************************************************)
(* C8: the structuring service (parse_contract, analyze_contract_ai) turns *)
(* every external-API failure and every parse failure into the fallback    *)
(* analysis and never propagates an exception to its caller, for any       *)
(* input text.                                                             *)
(***************************************************************************)
C8_ServiceNeverRaises ==
  \A r \in Reqs :
    SvcOver(r) =>
      /\ ~analysis[r].raised
      /\ llmOut[r].kind = "raise" \/ Undecodable(r) =>
           FallbackShaped(AnalysisDict(r))

C8_Witness ==
  \E r \in Reqs :
    /\ handler[r] = "api"
    /\ SvcOver(r)
    /\ llmOut[r].kind = "raise"
    /\ llmInput[r] # <<>>

(***************************************************************************)
(* C9: when the LLM API key is absent from the environment, startup does   *)
(* not fail and every structuring request is answered with the fallback    *)
(* analysis: never a failed/error response, never a model-derived result.  *)
(* Without the key the constructor of the agent's parser can raise, and    *)
(* the agent answers its "failed" dict.                                    *)
(***************************************************************************)
C9_NoKeyMeansFallback ==
  ~keyPresent =>
    \A r \in Reqs :
      Responded(r) /\ OcrSucceeded(r) => FallbackResponse(r)

(***************************************************************************)
(* C10: an upload whose filename does not indicate PDF is rejected before  *)
(* any upstream OCR or LLM call is made, with HTTP 400 and a detail that   *)
(* says the file type is unsupported.                                      *)
(* Neither /analyze handler looks at the filename's type.                  *)
(***************************************************************************)
C10_NonPdfRejected ==
  \A r \in Reqs :
    Upload(r) /\ ~IsPdf(filename[r]) =>
      /\ ocrCalls[r] = 0
      /\ llmCalls[r] = 0
      /\ pc[r] = "done" => resp[r].status = 400

(***************************************************************************)
(* C11: when the OCR stage reports success but the extracted text is       *)
(* empty, the request is rejected with a 4xx response and the structuring  *)
(* stage is never invoked with empty text.                                 *)
(* The agent looks at extraction_status alone and structures the empty     *)
(* text.                                                                   *)
(***************************************************************************)
\* The OCR upstream of r answered 200 with a success dict whose text is
\* empty.
OcrEmptySuccess(r) ==
  /\ OcrOver(r)
  /\ ocrOut[r].kind = "http" /\ ocrOut[r].status = 200
  /\ ocrOut[r].body.json
  /\ HasKey(ocrOut[r].body.value, "raw_text")
  /\ ocrOut[r].body.value.d.raw_text = <<>>
  /\ Get(ocrOut[r].body.value.d, "extraction_status", "none") = "success"

C11_EmptyTextRejected ==
  \A r \in Reqs :
    Upload(r) /\ OcrEmptySuccess(r) =>
      /\ llmCalls[r] = 0
      /\ llmInput[r] # <<>>
      /\ pc[r] = "done" => resp[r].status >= 400 /\ resp[r].status < 500

(***************************************************************************)
(* C12: if the LLM returns valid JSON that violates the target schema (an  *)
(* object without contract_data, a non-object value), the structuring      *)
(* stage returns the fallback analysis: it neither relays that output nor  *)
(* labels it as a successful high-confidence result.                       *)
(* parse_contract annotates an object without contract_data as a           *)
(* high-confidence result; analyze_contract_ai relays any JSON value.      *)
(***************************************************************************)
\* The completion call of r returned text that decodes as JSON.
Decoded(r) ==
  /\ llmOut[r].kind = "reply"
  /\ JsonLoads(CleanResponse(Strip(llmOut[r].content))).ok

\* The JSON value the reply of r decodes to.
DecodedValue(r) == JsonLoads(CleanResponse(Strip(llmOut[r].content))).value

\* The decoded reply is no object with an object under contract_data.
SchemaViolating(r) ==
  /\ Decoded(r)
  /\ \/ ~IsDict(DecodedValue(r))
     \/ "contract_data" \notin DOMAIN DecodedValue(r).d
     \/ ~IsDict(DecodedValue(r).d.contract_data)

\* What the structuring service of r returned is a dict.
AnalysisIsDict(r) ==
  /\ ~analysis[r].raised
  /\ handler[r] = "index" => IsDict(analysis[r].value)

C12_SchemaViolationGivesFallback ==
  \A r \in Reqs :
    SvcOver(r) /\ SchemaViolating(r) =>
      /\ AnalysisIsDict(r)
      /\ FallbackShaped(AnalysisDict(r))
      /\ Provenance(AnalysisDict(r), "confidence") # "high"

(***************************************************************************)
(* C13: every outcome of an /analyze request is either a 200 response      *)
(* that carries a (possibly degraded) analysis or a 4xx/5xx response with  *)
(* a detail for that request: no failure escapes as an uncaught            *)
(* exception, and no failure is reported as an error payload under a       *)
(* success status.                                                         *)
(* The agent reports every failure as {error, status: "failed"} with       *)
(* status 200.                                                             *)
(***************************************************************************)
\* The body is an error payload: an error and no analysis.
ErrorPayload(body) ==
  HasKey(body, "error") /\ ~HasKey(body, "contract_data")

C13_OutcomeIsAnalysisOrScopedError ==
  \A r \in Reqs :
    Responded(r) =>
      \/ resp[r].status = 200 /\ ~ErrorPayload(resp[r].body)
      \/ ErrorStatus(resp[r].status) /\ HasKey(resp[r].body, "detail")

(***************************************************************************)
(* C14: when the OCR upstream answers HTTP 500, the /analyze response has  *)
(* status 400 or 500 and a detail field whose text includes                *)
(* "OCR processing failed".                                                *)
(* The agent answers 200 with an error field that says "OCR failed".       *)
(***************************************************************************)
\* The text (a sequence of parts) includes the part.
Includes(text, part) == \E i \in 1..Len(text) : text[i] = part

C14_Ocr500GivesDetail ==
  \A r \in Reqs :
    /\ Responded(r)
    /\ ocrOut[r].kind = "http" /\ ocrOut[r].status = 500
    => /\ resp[r].status \in {400, 500}
       /\ HasKey(resp[r].body, "detail")
       /\ Includes(resp[r].body.d.detail, "OCR processing failed")

(***************************************************************************)
(* C15: the operations of the OCR gateway (process_file,                   *)
(* process_file_base64, process_contract, process_ocr) return a failed     *)
(* result for every network error, timeout, missing file and non-success   *)
(* status code, and never raise an exception to their caller.              *)
(***************************************************************************)
\* The operation of the gateway that request r runs.
GatewayOpOf(r) ==
  CASE handler[r] = "agent" -> "process_file"
    [] handler[r] = "index" -> "process_ocr"
    [] handler[r] \in GatewayOps -> handler[r]
    [] OTHER -> "none"

\* The gateway of r has returned to its caller (or raised).
GatewayOver(r) == GatewayOpOf(r) # "none" /\ OcrOver(r)

\* The gateway of r met a missing file, a network error or timeout, or a
\* non-success status code.
GatewayFailure(r) ==
  \/ ocrCalls[r] = 0
  \/ ocrOut[r].kind = "neterr"
  \/ ocrOut[r].kind = "http" /\ ocrOut[r].status # 200

TextKeys == {"raw_text", "text"}

C16_FailedResultHasEmptyText ==
  \A r \in Reqs :
    GatewayOver(r) /\ GatewayFailure(r) =>
      /\ "error" \in DOMAIN ocr_result[r]
      /\ \E k \in TextKeys :
           k \in DOMAIN ocr_result[r] /\ ocr_result[r][k] = <<>>

(***************************************************************************)
(* C17: the OCR gateway treats every non-2xx upstream response and every   *)
(* upstream JSON body that lacks an expected field (the encoder's base64,  *)
(* the worker's success flag, the worker's OCR text) as a failure, and     *)
(* never reports success for such a response.                              *)
(* The /ocr proxy answers 200 with an empty text when the worker's body    *)
(* has no ocr_text, and takes a 3xx answer of the encoder as good;         *)
(* process_contract returns the JSON body of a 200 unexamined.             *)
(***************************************************************************)
Is2xx(status) == status >= 200 /\ status < 300

\* The answer is an HTTP response outside 2xx.
Non2xx(out) == out.kind = "http" /\ ~Is2xx(out.status)

\* The answer has a JSON body.
JsonBody(out) == out.kind = "http" /\ out.body.json

\* The object of the worker's body that holds the OCR result.
WorkerData(out) ==
  IF HasKey(out.body.value, "output")
    THEN out.body.value.d.output ELSE out.body.value

\* The upstream answers of proxy request r that must count as a failure.
ProxyUpstreamBad(r) ==
  \/ Non2xx(encOut[r])
  \/ JsonBody(encOut[r]) /\ ~HasKey(encOut[r].body.value, "base64")
  \/ Non2xx(ocrOut[r])
  \/ /\ JsonBody(ocrOut[r])
     /\ \/ ~HasKey(WorkerData(ocrOut[r]), "success")
        \/ ~HasKey(WorkerData(ocrOut[r]), "ocr_text")

\* The upstream answer of a process_contract call that must count as a
\* failure.
ContractUpstreamBad(r) ==
  \/ Non2xx(ocrOut[r])
  \/ /\ JsonBody(ocrOut[r])
     /\ \A k \in TextKeys : ~HasKey(ocrOut[r].body.value, k)

C17_BadUpstreamIsFailure ==
  \A r \in Reqs :
    /\ handler[r] = "ocr" /\ pc[r] = "done" /\ ProxyUpstreamBad(r)
         => ~Is2xx(resp[r].status)
    /\ handler[r] = "process_contract" /\ OcrOver(r) /\ ContractUpstreamBad(r)
         => "error" \in DOMAIN ocr_result[r]

(***************************************************************************)
(* C18: on success the analysis returned by the structuring stage is       *)
(* annotated with a parse timestamp, ai_model equal to the name of the     *)
(* model that was called, and confidence "high"; on every non-success      *)
(* path the confidence label is "low" or "fallback".                       *)
(* analyze_contract_ai annotates nothing: its success value is the decoded *)
(* JSON as it is, its fallback has no confidence.                          *)
(***************************************************************************)
\* The analysis carries the annotations of a success.
AnnotatedSuccess(d) ==
  /\ Provenance(d, "parsed_at") = Now
  /\ Provenance(d, "ai_model") = Model
  /\ Provenance(d, "confidence") = "high"

C18_ResultIsAnnotated ==
  \A r \in Reqs :
    SvcOver(r) =>
      /\ AnalysisIsDict(r)
      /\ svc[r] = "Succeeded" => AnnotatedSuccess(AnalysisDict(r))
      /\ svc[r] = "Failed" =>
           Provenance(AnalysisDict(r), "confidence") \in {"low", "fallback"}

(***************************************************************************)
(* C19: every analysis returned to a caller, on the success path as well   *)
(* as on the fallback path, has a completeness score that is defined and   *)
(* lies in 0..100 inclusive, whatever the LLM returned.                    *)
(* The score is the LLM's: it is passed on as it came, out of range or     *)
(* missing.                                                                *)
(***************************************************************************)
ScoreInRange(d) ==
  /\ "completeness_analysis" \in DOMAIN d
  /\ "completeness_score" \in DOMAIN d.completeness_analysis
  /\ d.completeness_analysis.completeness_score \in 0..100

C19_ScoreDefinedInRange ==
  \A r \in Reqs :
    /\ SvcOver(r) => AnalysisIsDict(r) /\ ScoreInRange(AnalysisDict(r))
    /\ Responded(r) /\ HasKey(resp[r].body, "contract_data") =>
         ScoreInRange(resp[r].body.d)

(***************************************************************************)
(* C20: the fallback analysis is one fixed structure: for any two failing  *)
(* calls, whatever the input text and the failure cause, the fallback      *)
(* results are identical in all contract fields, every contract field is   *)
(* null/empty, the completeness score is 0, the missing-critical list is   *)
(* the all-fields-missing sentinel, and there is a single explanatory      *)
(* note.                                                                   *)
(* The parser's fallback fills rent, payment schedule and lease dates from *)
(* the text; the other two fill placeholders; the missing-critical lists   *)
(* are three names, the sentinel, and the empty list.                      *)
(***************************************************************************)
\* The keys of an analysis that are no contract fields.
Annotations ==
  {"parsed_at", "ai_model", "confidence", "rental_events",
   "completeness_analysis", "error"}

\* A dict without its annotations.
WithoutAnnotations(d) == [k \in DOMAIN d \ Annotations |-> d[k]]

\* The contract fields of an analysis of the service kind h: the parser's
\* analysis is flat, the other two hold them under contract_data.
ContractFields(h, d) ==
  IF h = "agent" THEN WithoutAnnotations(d)
  ELSE WithoutAnnotations(d.contract_data)

\* Every contract field is null (flat analysis) or an empty object.
FieldsBlank(h, d) ==
  LET cf == ContractFields(h, d) IN
  IF h = "agent" THEN \A k \in DOMAIN cf : cf[k] = None
  ELSE \A k \in DOMAIN cf : DOMAIN cf[k] = {}

\* The structuring service behind the entry point h.
ServiceOf(h, text, out) ==
  CASE h = "agent" -> Parser_parse_contract(text, out)
    [] h = "api" -> Api_parse_contract(text, out)
    [] h = "index" -> analyze_contract_ai(text, out)

\* The dict of a service result of kind h.
ResultDict(h, res) == IF h = "index" THEN res.value.d ELSE res.value

\* The fallback results of the service behind h over all texts and causes.
FallbackResults(h) ==
  { ResultDict(h, ServiceOf(h, text, out)) :
      <<text, out>> \in
        { p \in Texts \X LLMOutcomes : ServiceOf(h, p[1], p[2]).fallback } }

\* The list of missing critical fields of an analysis.
MissingCritical(d) ==
  IF "missing_critical_fields" \in DOMAIN d.completeness_analysis
    THEN d.completeness_analysis.missing_critical_fields
    ELSE Get(d.completeness_analysis, "missing_critical", <<"<absent>">>)

\* The keys that hold an explanatory note.
NoteKeys == {"validation_notes", "note", "notes", "error"}

SingleNote(d) ==
  Cardinality({k \in NoteKeys :
                 k \in DOMAIN d \/ k \in DOMAIN d.completeness_analysis}) = 1

C20_FallbackIsFixed ==
  \A r \in Reqs :
    SvcOver(r) /\ svc[r] = "Failed" =>
      LET h == handler[r]
          d == AnalysisDict(r)
      IN /\ \A other \in FallbackResults(h) :
              ContractFields(h, other) = ContractFields(h, d)
         /\ FieldsBlank(h, d)
         /\ ScoreZero(d)
         /\ MissingCritical(d) \in {<<"all_fields">>, <<"all">>}
         /\ SingleNote(d)

(***************************************************************************)
(* The target schema of the prompts: a node is a leaf of a JSON type or    *)
(* an object with fields.                                                  *)
(***************************************************************************)
Leaf(t) == [leaf |-> t]
Object(fields) == [fields |-> fields]

\* The completeness_analysis of the prompts (parser lines 225-299, api
\* lines 113-129).
CompletenessSchema(h) ==
  LET common ==
        [ completeness_score |-> Leaf("num"),
          quality_status |-> Leaf("str"),
          missing_critical |-> Leaf("list"),
          missing_important |-> Leaf("list"),
          needs_confirmation |-> Leaf("list"),
          actionable_gaps |-> Leaf("list") ]
  IN IF h = "agent"
       THEN common @@ [ suggested_improvements |-> Leaf("list"),
                        validation_notes |-> Leaf("str") ]
       ELSE common

\* The person of parties.landlord and parties.tenant.
PersonSchema ==
  [ name |-> Leaf("str"), passport_no |-> Leaf("str"),
    phone_primary |-> Leaf("str"), phone_alt |-> Leaf("str"),
    email |-> Leaf("str") ]

\* The party of a responsibility (parser prompt, lines 87-108).
PartySchema ==
  [ party |-> Leaf("str"), amount |-> Leaf("str"),
    conflict_notes |-> Leaf("str"), major_party |-> Leaf("str"),
    minor_party |-> Leaf("str"), minor_cap_aed |-> Leaf("num") ]

\* The contract_data of the prompts (parser lines 32-121, api lines 33-99),
\* with the three annotations parse_contract adds to it.  Where the two
\* prompts name the fields of an object differently, the object has the
\* fields of both.
ContractDataSchema(h) ==
  [ property |->
      Object([ building |-> Leaf("str"), unit |-> Leaf("str"),
               location |-> Leaf("str"), size_sqm |-> Leaf("num"),
               type |-> Leaf("str") ]),
    parties |->
      Object([ landlord |-> Object(PersonSchema),
               tenant |-> Object(PersonSchema),
               agent |-> Object([ name |-> Leaf("str"), email |-> Leaf("str"),
                                  phone |-> Leaf("str") ]) ]),
    identifiers |->
      Object([ dewa_premise_no |-> Leaf("str"), plot_no |-> Leaf("str"),
               ejari_number |-> Leaf("str") ]),
    lease |->
      Object([ start_date |-> Leaf("str"), end_date |-> Leaf("str"),
               duration_months |-> Leaf("num"),
               renewal_notice_days |-> Leaf("num") ]),
    rent |->
      Object([ annual_aed |-> Leaf("num"), monthly_aed |-> Leaf("num"),
               cheques |-> Object([ count |-> Leaf("num"),
                                    amounts |-> Leaf("list"),
                                    dates |-> Leaf("list") ]) ]),
    deposit |->
      Object([ refundable_aed |-> Leaf("num"), type |-> Leaf("str"),
               security_deposit |-> Leaf("num") ]),
    furnishing |->
      Object([ status |-> Leaf("str"), inventory_present |-> Leaf("bool"),
               inventory_list |-> Leaf("str") ]),
    responsibilities |->
      IF h = "agent"
        THEN Object([ service_charges |-> Object(PartySchema),
                      dewa |-> Object(PartySchema),
                      chiller |-> Object(PartySchema),
                      maintenance |-> Object(PartySchema),
                      ejari_registration |-> Object(PartySchema) ])
        ELSE Object([ service_charges |-> Leaf("str"), dewa |-> Leaf("str"),
                      chiller |-> Leaf("str"),
                      maintenance_major |-> Leaf("str"),
                      maintenance_minor |-> Leaf("str"),
                      maintenance_minor_cap |-> Leaf("num") ]),
    terms |->
      Object([ pets_allowed |-> Leaf("bool"),
               subletting_allowed |-> Leaf("bool"),
               early_termination |->
                 Object([ notice_days |-> Leaf("num"),
                          penalty |-> Leaf("str") ]),
               renewal |->
                 Object([ notice_days |-> Leaf("num"),
                          broker_fee |-> Leaf("str") ]),
               early_termination_notice |-> Leaf("num"),
               early_termination_penalty |-> Leaf("str"),
               governing_law |-> Leaf("str") ]),
    parsed_at |-> Leaf("str"),
    ai_model |-> Leaf("str"),
    confidence |-> Leaf("str") ]

\* The JSON object the prompt asks for.
PromptSchema(h) ==
  [ contract_data |-> Object(ContractDataSchema(h)),
    rental_events |-> Leaf("list"),
    completeness_analysis |-> Object(CompletenessSchema(h)) ]

\* The dict parse_contract returns on success: the contract_data of the
\* reply with the annotations, the events and the completeness analysis
\* added to it.
SuccessSchema(h) ==
  ContractDataSchema(h)
  @@ [ rental_events |-> Leaf("list"),
       completeness_analysis |-> Object(CompletenessSchema(h)) ]

RECURSIVE KeysValid(_, _)
\* Every key of d, at every nesting level, is a key of the schema, with an
\* object where the schema has an object.
KeysValid(d, fields) ==
  \A k \in DOMAIN d :
    /\ k \in DOMAIN fields
    /\ "fields" \in DOMAIN fields[k] => KeysValid(d[k], fields[k].fields)

(***************************************************************************)
(* C21: the fallback analysis always validates against the schema of the   *)
(* successful analysis: every key it contains, at every nesting level, is  *)
(* a key of the full target schema, with values that are null/empty or of  *)
(* the schema's type.                                                      *)
(* The parser's fallback is a flat dict of its own keys (rent_amount,      *)
(* lease_start_date, ..., missing_critical_fields), none of the schema.    *)
(***************************************************************************)
C21_FallbackValidates ==
  \A r \in Reqs :
    SvcOver(r) /\ svc[r] = "Failed" /\ handler[r] \in {"agent", "api"} =>
      \/ KeysValid(AnalysisDict(r), SuccessSchema(handler[r]))
      \/ KeysValid(AnalysisDict(r), PromptSchema(handler[r]))

(***************************************************************************)
(* C22: when the LLM is unreachable and the OCR text contains an           *)
(* "AED <number>" pattern, the rule-based fallback extractor sets          *)
(* rent_amount to that literal amount as it appears in the text (the       *)
(* first such occurrence), and leaves rent_amount null when no such        *)
(* pattern occurs.                                                         *)
(* The pattern stops at the first character that is no digit or comma: of  *)
(* "AED 4000.50" the extractor keeps "AED 4000".                           *)
(***************************************************************************)
\* The positions of the amounts of the text that follow "AED".
Amounts(text) ==
  { i \in 2..Len(text) : text[i - 1] = "AED" /\ text[i] \in NumTokens }

\* The first amount of the text, as it appears.
FirstAmount(text) == text[Min(Amounts(text))]

\* The fallback extractor ran for request r with the LLM unreachable.
ExtractorRan(r) ==
  /\ handler[r] = "agent"
  /\ SvcOver(r)
  /\ llmOut[r].kind = "raise"

C22_RentAmountIsLiteral ==
  \A r \in Reqs :
    ExtractorRan(r) =>
      analysis[r].value.rent_amount =
        IF Amounts(llmInput[r]) # {}
          THEN <<"AED", FirstAmount(llmInput[r])>>
          ELSE None

(***************************************************************************)
(* C23: for a valid PDF, a healthy OCR stage and an LLM reply that is      *)
(* well-formed JSON per the schema, /analyze responds 200 and relays the   *)
(* reply's rental_events unchanged and in the same order (non-empty) and   *)
(* its completeness_analysis.completeness_score unchanged (within 0..100). *)
(***************************************************************************)
\* The JSON value is an object per the schema: an object under
\* contract_data with fields of the schema, events, a score in range.
WellFormed(v) ==
  /\ IsDict(v)
  /\ HasKey(v, "contract_data")
  /\ IsDict(v.d.contract_data)
  /\ DOMAIN v.d.contract_data.d \subseteq DOMAIN ContractDataSchema("agent")
  /\ "rental_events" \in DOMAIN v.d
  /\ v.d.rental_events # <<>>
  /\ ScoreInRange(v.d)

\* Request r is the happy path: a PDF, an OCR answer with a text, a
\* well-formed reply.
HappyPath(r) ==
  /\ Responded(r)
  /\ IsPdf(filename[r])
  /\ OcrSucceeded(r)
  /\ Decoded(r)
  /\ WellFormed(DecodedValue(r))

C23_HappyPathRelaysReply ==
  \A r \in Reqs :
    HappyPath(r) =>
      /\ resp[r].status = 200
      /\ IsDict(resp[r].body)
      /\ ~ErrorPayload(resp[r].body)
      /\ resp[r].body.d.rental_events = DecodedValue(r).d.rental_events
      /\ resp[r].body.d.rental_events # <<>>
      /\ resp[r].body.d.completeness_analysis.completeness_score =
           DecodedValue(r).d.completeness_analysis.completeness_score
      /\ ScoreInRange(resp[r].body.d)

C23_Witness ==
  \E r \in Reqs :
    /\ HappyPath(r)
    /\ handler[r] = "agent"
    /\ Len(resp[r].body.d.rental_events) = 2
    /\ llmOut[r].content # <<"OBJ_FULL">>

(***************************************************************************)
(* C24: the health endpoint reports each upstream service (OCR, LLM) as    *)
(* healthy exactly when that service is reachable at the time of the       *)
(* check, and as unhealthy when it is not.                                 *)
(* Neither endpoint asks the LLM, and /api/health asks no upstream at all: *)
(* it reports what is configured.                                          *)
(***************************************************************************)
\* Request r is a health check that has been answered.
HealthChecked(r) ==
  /\ handler[r] \in {"agent_health", "index_health"}
  /\ pc[r] = "done"

\* What the answer of r says of the OCR service and of the LLM.
ReportedOcr(r) ==
  LET b == resp[r].body.d IN
  IF handler[r] = "index_health" THEN b.services.colab_ocr
  ELSE IF "colab_api" \in DOMAIN b
    THEN Get(b.colab_api, "status", "unreported")
  ELSE "unreported"

ReportedLlm(r) ==
  LET b == resp[r].body.d IN
  IF handler[r] = "index_health" THEN b.services.openai
  ELSE IF "openai_api" \in DOMAIN b THEN b.openai_api.status
  ELSE "unreported"

C24_HealthReflectsReachability ==
  \A r \in Reqs :
    HealthChecked(r) =>
      /\ ReportedOcr(r) = "healthy" <=> probe[r].ocrUp
      /\ ReportedLlm(r) = "healthy" <=> probe[r].llmUp

(***************************************************************************)
(* C25: for every JSON document J, an LLM reply that is J wrapped in       *)
(* Markdown code fences decodes to the same value as J alone: fence        *)
(* stripping removes the wrapper and nothing else, also when the fence is  *)
(* preceded by other text or when J itself contains a triple backtick      *)
(* inside a string value.                                                  *)
(* The fences are looked for at the start of the reply only, and every     *)
(* triple backtick of the reply is removed, those of J included.           *)
(***************************************************************************)
FenceOpens == {"<fence>json", "<fence>"}

Max(S) == CHOOSE x \in S : \A y \in S : x >= y

\* The positions of the opening fence and of the closing fence of a reply.
FirstFence(c) == Min({i \in 1..Len(c) : c[i] \in FenceOpens})
LastFence(c) == Max({i \in 1..Len(c) : c[i] = "<fence>"})

\* The reply holds a fenced block.
FencedReply(c) ==
  /\ \E i \in 1..Len(c) : c[i] \in FenceOpens
  /\ \E i \in 1..Len(c) : c[i] = "<fence>"
  /\ FirstFence(c) < LastFence(c)

\* The document between the fences.
Inner(c) == SubSeq(c, FirstFence(c) + 1, LastFence(c) - 1)

C25_FenceStrippingKeepsValue ==
  \A r \in Reqs :
    SvcOver(r) /\ llmOut[r].kind = "reply" /\ FencedReply(llmOut[r].content) =>
      JsonLoads(CleanResponse(Strip(llmOut[r].content)))
        = JsonLoads(Inner(llmOut[r].content))

(***************************************************************************)
(* C26: the OCR worker's text for a sequence of pages is the pages joined  *)
(* by a blank line, each page being its recognized lines joined by a       *)
(* newline with every empty or whitespace-only line dropped; a page with   *)
(* no remaining lines contributes an empty string.                         *)
(***************************************************************************)
\* The job of request r ran the OCR stack to its end.
WorkerRecognized(r) ==
  /\ handler[r] = "worker" /\ pc[r] = "done"
  /\ worker[r].run.kind = "preds"

\* The line carries text that is not only whitespace.
Blank(ln) ==
  \/ "text" \notin DOMAIN ln
  \/ ln.text = None
  \/ \A i \in 1..Len(ln.text) : ln.text[i] \in Whitespace

\* The texts of the lines of page p from the k-th on, blank ones dropped,
\* each but the last followed by a newline.
RECURSIVE PageFrom(_, _)
PageFrom(p, k) ==
  IF "text_lines" \notin DOMAIN p \/ k > Len(p.text_lines) THEN <<>>
  ELSE IF Blank(p.text_lines[k]) THEN PageFrom(p, k + 1)
  ELSE LET rest == PageFrom(p, k + 1) IN
       IF rest = <<>> THEN p.text_lines[k].text
       ELSE p.text_lines[k].text \o <<"\n">> \o rest

\* The pages from the k-th on, a blank line between two of them.
RECURSIVE PagesFrom(_, _)
PagesFrom(preds, k) ==
  IF k > Len(preds) THEN <<>>
  ELSE IF k = Len(preds) THEN PageFrom(preds[k], 1)
  ELSE PageFrom(preds[k], 1) \o <<"\n", "\n">> \o PagesFrom(preds, k + 1)

C26_OcrTextJoinsPagesAndLines ==
  \A r \in Reqs :
    WorkerRecognized(r) =>
      /\ worker[r].result.d.success
      /\ worker[r].result.d.ocr_text = PagesFrom(worker[r].run.preds, 1)

\* A job with several pages, blank lines among them and a page without
\* any line left.
C26_Witness ==
  \E r \in Reqs :
    /\ WorkerRecognized(r)
    /\ Len(worker[r].run.preds) > 1
    /\ \E i \in 1..Len(worker[r].run.preds) :
         /\ "text_lines" \in DOMAIN worker[r].run.preds[i]
         /\ worker[r].run.preds[i].text_lines # <<>>
         /\ PageFrom(worker[r].run.preds[i], 1) = <<>>
    /\ \E i \in 1..Len(worker[r].run.preds) :
         /\ PageFrom(worker[r].run.preds[i], 1) # <<>>
         /\ \E k \in 1..Len(worker[r].run.preds[i].text_lines) :
              Blank(worker[r].run.preds[i].text_lines[k])
    /\ worker[r].result.d.ocr_text =
         <<"TENANCY", "\n", "\n", "\n", "\n", "\n", "\n", "RENT", "\n", "AED">>

(***************************************************************************)
(* C27: the OCR client handle and the LLM client handle of the agent are   *)
(* each constructed once and reused: after any sequence of requests,       *)
(* failing ones included, get_colab_client and get_contract_parser have    *)
(* each created at most one instance, and the handle a call returns is     *)
(* that instance.                                                          *)
(***************************************************************************)
C27_HandlesAreSingletons ==
  /\ clientsMade <= 1
  /\ parsersMade <= 1
  /\ colab_client <=> clientsMade = 1
  /\ contract_parser <=> parsersMade = 1

\* A request has got both handles after another request was answered, and
\* ends in an error.
C27_Witness ==
  \E r \in Reqs, q \in Reqs :
    /\ q # r /\ pc[q] = "closed"
    /\ handler[r] = "agent" /\ pc[r] = "done"
    /\ ocrCalls[r] = 1 /\ llmCalls[r] = 1
    /\ llmOut[r].kind = "raise"
    /\ clientsMade = 1 /\ parsersMade = 1

(***************************************************************************)
(* C28: the steps of the /ocr proxy are ordered validate, encode, OCR      *)
(* worker: the worker is called only after the upload passed validation    *)
(* (PDF filename, non-empty bytes) and the encoder returned a 2xx response *)
(* with a non-empty base64; when an earlier step fails no later upstream   *)
(* is called; each upstream is called at most once per request.            *)
(* The proxy tests Response.ok, which also holds for a 3xx answer.         *)
(***************************************************************************)
ProxyReq(r) == handler[r] = "ocr"

\* The upload of proxy request r passed the validation.
Validated(r) == EndsWithPdf(filename[r]) /\ content[r] # <<>>

\* The encoder's answer carries a non-empty base64.
HasBase64(out) ==
  /\ JsonBody(out)
  /\ HasKey(out.body.value, "base64")
  /\ out.body.value.d.base64 # <<>>

C28_ProxyStepsOrdered ==
  \A r \in Reqs :
    ProxyReq(r) =>
      /\ encCalls[r] <= 1 /\ ocrCalls[r] <= 1
      /\ encCalls[r] = 1 => Validated(r)
      /\ ocrCalls[r] = 1 =>
           /\ Validated(r)
           /\ encCalls[r] = 1
           /\ encOut[r].kind = "http" /\ Is2xx(encOut[r].status)
           /\ HasBase64(encOut[r])

(***************************************************************************)
(* C29: the /ocr proxy and the OCR worker agree on the result protocol:    *)
(* for every result the worker's handler can return for a pdf_data input,  *)
(* the proxy answers 200 with the worker's ocr_text as its body exactly    *)
(* when the worker reported success, and otherwise 500 with the worker's   *)
(* error message; it never answers 200 for a failure of the worker.        *)
(***************************************************************************)
\* The OCR worker answered proxy request r with a result of its handler.
WorkerAnswered(r) ==
  /\ ProxyReq(r) /\ pc[r] = "done" /\ ocrCalls[r] = 1
  /\ JsonBody(ocrOut[r]) /\ Is2xx(ocrOut[r].status)
  /\ IsDict(ocrOut[r].body.value)
  /\ WorkerData(ocrOut[r]) \in HandlerResults(ocrInput[r])

C29_ProxyAgreesWithWorker ==
  \A r \in Reqs :
    WorkerAnswered(r) =>
      LET h == WorkerData(ocrOut[r]).d IN
      IF h.success
        THEN resp[r] = PlainText(h.ocr_text)
        ELSE resp[r] = ProxyError(500, h.error)

\* The worker's handler reported a failure under "output" and the proxy
\* answered 500 with its message.
C29_Witness ==
  \E r \in Reqs :
    /\ WorkerAnswered(r)
    /\ ~WorkerData(ocrOut[r]).d.success
    /\ "output" \in DOMAIN ocrOut[r].body.value.d
    /\ resp[r].status = 500
    /\ resp[r].body.d.error = <<"Incorrect padding">>

\* The worker's handler reported success and the proxy relayed its text.
C29_WitnessSuccess ==
  \E r \in Reqs :
    /\ WorkerAnswered(r)
    /\ WorkerData(ocrOut[r]).d.success
    /\ resp[r].status = 200
    /\ resp[r].body.text = <<"TENANCY", "\n", " ", "CONTRACT">>

(***************************************************************************)
(* C30: the result of parse_contract has the same shape on the success     *)
(* path and on the fallback path: ai_model, confidence, rental_events and  *)
(* completeness_analysis are found at the same key path in both.           *)
(* The service of src/api returns contract_data itself on success, with    *)
(* the four keys at its top level, and on fallback a dict that holds       *)
(* ai_model and confidence inside contract_data.                           *)
(***************************************************************************)
ShapeKeys == {"ai_model", "confidence", "rental_events",
              "completeness_analysis"}

\* Where key k is found in result d.
KeyPath(d, k) ==
  IF k \in DOMAIN d THEN "top"
  ELSE IF "contract_data" \in DOMAIN d /\ k \in DOMAIN d.contract_data
    THEN "contract_data"
  ELSE "absent"

\* The success results of parse_contract behind h over all texts and
\* replies.
SuccessResults(h) ==
  { ResultDict(h, ServiceOf(h, p[1], p[2])) :
      p \in { q \in Texts \X LLMOutcomes :
                /\ ~ServiceOf(h, q[1], q[2]).raised
                /\ ~ServiceOf(h, q[1], q[2]).fallback } }

C30_SameShapeOnBothPaths ==
  \A r \in Reqs :
    SvcOver(r) /\ handler[r] \in {"agent", "api"} /\ ~analysis[r].raised =>
      \A k \in ShapeKeys :
        /\ KeyPath(AnalysisDict(r), k) # "absent"
        /\ \A s \in SuccessResults(handler[r]) :
             KeyPath(s, k) = KeyPath(AnalysisDict(r), k)

=============================================================================
